---- MODULE Spec2Model ----
(***************************************************************************)
(* Reference Resolution Core of the citation processor:                    *)
(*   pkg/loader/data_loader.go  (store, abbreviation generator,            *)
(*                               Latin author disambiguation)              *)
(*   pkg/resolver/resolver.go   (GetRef, parseReference, resolveAuthor,    *)
(*                               getWorkURN, GetURN)                       *)
(* Go strings are modelled by TLA+ strings; a character is a string of     *)
(* length 1 and s[i] of the code is Ch(s, i+1).  Only ASCII is modelled.   *)
(***************************************************************************)
EXTENDS Integers, Sequences, FiniteSets, TLC

VARIABLES
    store,   \* ComprehensiveData.*.WorkURNs after expandWorkTitles
    op,      \* the operation this run calls
    arg1,    \* its first argument
    arg2,    \* its second argument ("" when it has one argument)
    pc,      \* "ready" before the call returns, "done" after
    out,     \* the value returned by the call
    Counter,     \* CitationProcessor.Counter
    CounterMux,  \* CitationProcessor.CounterMux: "free" or "locked"
    resolved,    \* the records of resolved.jsonl, in file order
    unresolved   \* the records of unresolved.jsonl, in file order

vars == <<store, op, arg1, arg2, pc, out, Counter, CounterMux, resolved, unresolved>>

procVars == <<Counter, CounterMux, resolved, unresolved>>

\* NewCitationProcessor, and the output files as ProcessAllXMLFiles starts
\* with them (removed before the first file is processed)
NewCitationProcessor ==
    /\ Counter = 0
    /\ CounterMux = "free"
    /\ resolved = <<>>
    /\ unresolved = <<>>

(***************************************************************************)
(* Strings: package strings / regexp character classes                     *)
(***************************************************************************)
\* s[i:j] of the code is Sub(s, i+1, j); out-of-range positions give ""
Sub(s, i, j) ==
    LET lo == IF i < 1 THEN 1 ELSE i
        hi == IF j > Len(s) THEN Len(s) ELSE j
    IN  IF lo > hi THEN "" ELSE SubSeq(s, lo, hi)

Ch(s, i) == Sub(s, i, i)

\* F applied to e: gives the intermediate result e the name F uses for it
With(e, F(_)) == F(e)

\* the same, e being evaluated once, whether F uses it or not
Bind(e, F(_)) == CHOOSE r \in {F(x) : x \in {e}} : TRUE

Digits == {"0", "1", "2", "3", "4", "5", "6", "7", "8", "9"}

LowerSeq == "abcdefghijklmnopqrstuvwxyz"

UpperSeq == "ABCDEFGHIJKLMNOPQRSTUVWXYZ"

LowerLetters == {Ch(LowerSeq, i) : i \in 1..Len(LowerSeq)}

UpperLetters == {Ch(UpperSeq, i) : i \in 1..Len(UpperSeq)}

IsDigit(c) == c \in Digits

IsAlpha(c) == c \in LowerLetters \/ c \in UpperLetters

IsSpace(c) == c \in {" ", "\t", "\n", "\r"}

LowerChar(c) ==
    IF c \in UpperLetters
    THEN Ch(LowerSeq, CHOOSE i \in 1..Len(UpperSeq) : Ch(UpperSeq, i) = c)
    ELSE c

RECURSIVE ToLower(_)
ToLower(s) ==
    IF s = "" THEN "" ELSE LowerChar(Head(s)) \o ToLower(Tail(s))

RECURSIVE TrimLeft(_)
TrimLeft(s) ==
    IF s # "" /\ IsSpace(Head(s)) THEN TrimLeft(Tail(s)) ELSE s

RECURSIVE TrimRight(_)
TrimRight(s) ==
    IF s # "" /\ IsSpace(Ch(s, Len(s)))
    THEN TrimRight(Sub(s, 1, Len(s) - 1))
    ELSE s

TrimSpace(s) == TrimRight(TrimLeft(s))

RECURSIVE FieldsAcc(_, _, _)
FieldsAcc(s, cur, acc) ==
    IF s = ""
    THEN IF cur = "" THEN acc ELSE Append(acc, cur)
    ELSE IF IsSpace(Head(s))
         THEN FieldsAcc(Tail(s), "", IF cur = "" THEN acc ELSE Append(acc, cur))
         ELSE FieldsAcc(Tail(s), cur \o Head(s), acc)

Fields(s) == FieldsAcc(s, "", <<>>)

RECURSIVE Join(_, _)
Join(ws, sep) ==
    IF Len(ws) = 0 THEN ""
    ELSE IF Len(ws) = 1 THEN ws[1]
    ELSE ws[1] \o sep \o Join(Tail(ws), sep)

HasPrefix(s, p) == Len(p) <= Len(s) /\ Sub(s, 1, Len(p)) = p

HasSuffix(s, p) == Len(p) <= Len(s) /\ Sub(s, Len(s) - Len(p) + 1, Len(s)) = p

TrimSuffix(s, p) == IF HasSuffix(s, p) THEN Sub(s, 1, Len(s) - Len(p)) ELSE s

Contains(s, sub) ==
    \E i \in 1..(Len(s) - Len(sub) + 1) : Sub(s, i, i + Len(sub) - 1) = sub

\* strings.Index, 1-based; 0 when sub does not occur
Index(s, sub) ==
    IF Contains(s, sub)
    THEN CHOOSE i \in 1..(Len(s) - Len(sub) + 1) :
            /\ Sub(s, i, i + Len(sub) - 1) = sub
            /\ \A j \in 1..(i - 1) : Sub(s, j, j + Len(sub) - 1) # sub
    ELSE 0

RECURSIVE ReplaceAll(_, _, _)
ReplaceAll(s, old, new) ==
    IF s = "" THEN ""
    ELSE IF HasPrefix(s, old)
         THEN new \o ReplaceAll(Sub(s, Len(old) + 1, Len(s)), old, new)
         ELSE Head(s) \o ReplaceAll(Tail(s), old, new)

InSeq(ws, w) == \E i \in 1..Len(ws) : ws[i] = w

AllDigits(s) == \A i \in 1..Len(s) : IsDigit(Ch(s, i))

(***************************************************************************)
(* Abbreviation generator (data_loader.go)                                 *)
(***************************************************************************)
FuncWords == {"the", "a", "an", "of", "in", "by", "for", "on", "and", "de", "ad"}

Vowels == {"a", "e", "i", "o", "u", "y"}

Plosives == {"t", "p", "d", "g", "k", "x", "c", "b"}

\* the character loop of generateSmartSuspension for one word
RECURSIVE SuspWalk(_, _, _, _)
SuspWalk(w, buffer, vowelSeen, consLastSeen) ==
    IF w = "" THEN buffer
    ELSE LET c == Head(w) IN
         IF c \in Vowels
         THEN IF vowelSeen /\ consLastSeen
              THEN buffer
              ELSE SuspWalk(Tail(w), buffer \o c, TRUE, FALSE)
         ELSE IF vowelSeen /\ c \in Plosives
              THEN buffer \o c
              ELSE SuspWalk(Tail(w), buffer \o c, vowelSeen, TRUE)

RECURSIVE SuspWords(_, _)
SuspWords(words, skipDe) ==
    IF Len(words) = 0 THEN <<>>
    ELSE LET word == Head(words)
             rest == SuspWords(Tail(words), skipDe)
         IN  IF word = "de" \/ word = "on"
             THEN IF skipDe THEN rest ELSE <<word>> \o rest
             ELSE IF word \in FuncWords THEN rest
             ELSE LET buffer == SuspWalk(word, "", FALSE, FALSE)
                  IN  IF Len(buffer) > 0 THEN <<buffer>> \o rest ELSE rest

generateSmartSuspension(title, skipDe) ==
    LET words == Fields(ReplaceAll(title, " ", "_"))
        suspensions == SuspWords(words, skipDe)
        result == Join(suspensions, ".")
    IN  IF Len(suspensions) = 0 THEN ""
        ELSE IF HasSuffix(result, ".") THEN result ELSE result \o "."

\* Variant of addAbbrev without the abbrev != "" test.
addAbbrevKeepEmpty(abbreviations, abbrev) ==
    IF InSeq(abbreviations, abbrev) THEN abbreviations
    ELSE Append(abbreviations, abbrev)

\* addAbbrev: append unless empty or already present
addAbbrev(abbreviations, abbrev) ==
    IF abbrev # "" /\ ~InSeq(abbreviations, abbrev)
    THEN Append(abbreviations, abbrev)
    ELSE abbreviations

RECURSIVE AddAll(_, _)
AddAll(abbreviations, emitted) ==
    IF Len(emitted) = 0 THEN abbreviations
    ELSE AddAll(addAbbrev(abbreviations, Head(emitted)), Tail(emitted))

\* Strings are Go strings, one character of the model for each byte.  The
\* bytes 0xC3, 0xA9 and 0x83 have no ASCII character and are written with
\* three characters that stand for nothing else; 0xC3 0xA9 is the UTF-8
\* encoding of one character of a title (e with acute accent).
ByteC3 == "^"

ByteA9 == "~"

Byte83 == "@"

\* string(b) for the first byte b of a word: the UTF-8 encoding of the
\* character whose code is b (0xC3 0x83 for 0xC3)
ByteToString(b) == IF b = ByteC3 THEN ByteC3 \o Byte83 ELSE b

\* the strings built from the first letters of the words not in skip
RECURSIVE InitialsOf(_, _, _)
InitialsOf(words, after, skip) ==
    IF Len(words) = 0 THEN ""
    ELSE LET w == Head(words)
             rest == InitialsOf(Tail(words), after, skip)
         IN  IF w \notin skip /\ Len(w) > 0
             THEN ByteToString(Ch(w, 1)) \o after \o rest
             ELSE rest

InitialForms(words, skip) ==
    << InitialsOf(words, "", skip),
       InitialsOf(words, ".", skip),
       TrimSuffix(InitialsOf(words, "_", skip), "_"),
       TrimSuffix(InitialsOf(words, "._", skip), "._") \o "." >>

Min(a, b) == IF a <= b THEN a ELSE b

FirstLetters(word) ==
    LET n == Min(6, Len(word))
        k == IF n >= 2 THEN n - 1 ELSE 0
    IN  [j \in 1..(2 * k) |->
            IF j % 2 = 1
            THEN Sub(word, 1, (j + 1) \div 2 + 1)
            ELSE Sub(word, 1, j \div 2 + 1) \o "."]

GenerateWorkAbbreviations(t) ==
    LET title == ToLower(t)
        words == Fields(title)
        n     == Len(words)
        plural ==
            IF n = 1 /\ HasSuffix(title, "s")
            THEN <<Sub(title, 1, Len(title) - 1) \o "a">>
            ELSE IF n = 1 /\ HasSuffix(title, "a")
            THEN <<Sub(title, 1, Len(title) - 1) \o "s">>
            ELSE <<>>
        first == <<ByteToString(Ch(title, 1)), ByteToString(Ch(title, 1)) \o ".">>
        hasFuncWords == \E i \in 1..n : words[i] \in FuncWords
        initials ==
            IF n > 1
            THEN InitialForms(words, {})
                 \o (IF hasFuncWords
                     THEN InitialForms(words, FuncWords)
                     ELSE <<>>)
                 \o <<words[1]>>
            ELSE <<>>
        two ==
            IF n > 2
            THEN LET twoWords == Join(SubSeq(words, 1, 2), " ")
                 IN  <<twoWords, ReplaceAll(twoWords, " ", "_")>>
            ELSE <<>>
        three ==
            IF n > 3
            THEN LET threeWords == Join(SubSeq(words, 1, 3), " ")
                 IN  <<threeWords, ReplaceAll(threeWords, " ", "_")>>
            ELSE <<>>
        susp == << generateSmartSuspension(title, TRUE),
                   generateSmartSuspension(title, FALSE) >>
        underscored == IF n > 1 THEN <<ReplaceAll(title, " ", "_")>> ELSE <<>>
    IN  IF title # "" /\ AllDigits(title) THEN <<>>
        ELSE IF n = 0 THEN <<>>
        ELSE AddAll(<<>>, plural \o first \o FirstLetters(words[1]) \o initials
                          \o two \o three \o susp \o underscored \o <<title>>)

(***************************************************************************)
(* Reference data (data/*.json as decoded into ComprehensiveData).  A work  *)
(* identifier is Simple(code) or Range(prefix, start, end).                *)
(***************************************************************************)
Simple(code) == [kind |-> "simple", code |-> code]

Range(prefix, start, end) ==
    [kind |-> "range", prefix |-> prefix, start |-> start, end |-> end]

IsSimple(w) == w.kind = "simple"

IsRange(w) == w.kind = "range"

NoTable == [t \in {} |-> Simple("")]

GreekSource ==
    [ AuthAbb |-> [a \in {"soph.", "hom.", "dem.", "hdt.", "ap. rhod.", "lys."} |->
                     CASE a = "soph." -> "sophocles"
                       [] a = "lys." -> "lysias"
                       [] a = "hom." -> "homer"
                       [] a = "dem." -> "demosthenes"
                       [] a = "hdt." -> "herodotus"
                       [] a = "ap. rhod." -> "apollonius"],
      WorkURNs |-> [a \in {"sophocles", "homer", "demosthenes", "lysias"} |->
                     CASE a = "lysias" ->
                            [t \in {"or.19"} |-> Range("tlg", 5, 34)]
                       [] a = "sophocles" ->
                            [t \in {"electra", "oedipus tyrannus", "oedipus coloneus"} |->
                               CASE t = "electra" -> Simple("tlg005")
                                 [] t = "oedipus tyrannus" -> Simple("tlg004")
                                 [] t = "oedipus coloneus" -> Simple("tlg007")]
                       [] a = "homer" ->
                            [t \in {"iliad", "odyssey"} |->
                               CASE t = "iliad" -> Simple("tlg001")
                                 [] t = "odyssey" -> Simple("tlg002")]
                       [] a = "demosthenes" ->
                            [t \in {"or."} |-> Range("tlg", 1, 61)]],
      AuthURNs |-> [a \in {"sophocles", "homer", "demosthenes", "herodotus", "apollonius",
                           "lysias"} |->
                     CASE a = "sophocles" -> "urn:cts:greekLit:tlg0011"
                       [] a = "lysias" -> "urn:cts:greekLit:tlg0540"
                       [] a = "homer" -> "urn:cts:greekLit:tlg0012"
                       [] a = "demosthenes" -> "urn:cts:greekLit:tlg0014"
                       [] a = "herodotus" -> "urn:cts:greekLit:tlg0016"
                       [] a = "apollonius" -> "urn:cts:greekLit:tlg0001"],
      SingleWorkAuthors |-> <<"herodotus">> ]

LatinSource ==
    [ AuthAbb |-> [a \in {"plin.", "pliny", "sen.", "seneca", "lucr."} |->
                     CASE a \in {"plin.", "pliny"} -> "_which_pliny"
                       [] a \in {"sen.", "seneca"} -> "_which_seneca"
                       [] a = "lucr." -> "lucretius"],
      WorkURNs |-> [a \in {"pliny_senior", "pliny_junior", "seneca_senior", "seneca_junior"} |->
                     CASE a = "pliny_senior" ->
                            [t \in {"naturalis historia"} |-> Simple("phi001")]
                       [] a = "pliny_junior" ->
                            [t \in {"epistulae"} |-> Simple("phi001")]
                       [] a = "seneca_senior" ->
                            [t \in {"controversiae"} |-> Simple("phi001")]
                       [] a = "seneca_junior" ->
                            [t \in {"oedipus", "de clementia"} |->
                               CASE t = "oedipus" -> Simple("phi011")
                                 [] t = "de clementia" -> Simple("phi014")]],
      AuthURNs |-> [a \in {"pliny_senior", "pliny_junior", "seneca_senior",
                           "seneca_junior", "lucretius"} |->
                     CASE a = "pliny_senior" -> "urn:cts:latinLit:phi0978"
                       [] a = "pliny_junior" -> "urn:cts:latinLit:phi1318"
                       [] a = "seneca_senior" -> "urn:cts:latinLit:phi1014"
                       [] a = "seneca_junior" -> "urn:cts:latinLit:phi1017"
                       [] a = "lucretius" -> "urn:cts:latinLit:phi0550"],
      SingleWorkAuthors |-> <<"lucretius">> ]

ScholSource ==
    [ AuthAbb |-> [a \in {"schol."} |-> "scholia"],
      WorkURNs |-> [a \in {} |-> NoTable],
      AuthURNs |-> [a \in {"scholia"} |-> "urn:cts:greekSchol:tlg5037"],
      SingleWorkAuthors |-> <<>> ]

OtherSource ==
    [ AuthAbb |-> [a \in {"shak.", "shakespeare"} |-> "shakespeare"],
      WorkURNs |-> [a \in {"shakespeare"} |->
                     [t \in {"cymbeline"} |-> Simple("cym")]],
      AuthURNs |-> [a \in {"shakespeare"} |-> "urn:cts:englishLit:shak"],
      SingleWorkAuthors |-> <<>> ]

(***************************************************************************)
(* expandWorkTitles.  A Go map is ranged over in an unspecified order:     *)
(* order is the sequence in which the titles of one author are visited.    *)
(***************************************************************************)
Orders(S) ==
    {o \in [1..Cardinality(S) -> S] : \A i, j \in 1..Cardinality(S) : o[i] = o[j] => i = j}

\* the inner loop: every abbreviation that is not yet a key is mapped to urn
AddAbbrevKeys(expanded, abbrevs, urn) ==
    expanded @@ [abbrev \in {abbrevs[i] : i \in 1..Len(abbrevs)} |-> urn]

RECURSIVE ExpandWorksKeepFirst(_, _, _)
\* a loop in which a title that is already a key keeps the identifier it has
ExpandWorksKeepFirst(works, order, expanded) ==
    IF Len(order) = 0 THEN expanded
    ELSE LET work == Head(order)
             urn == works[work]
             withWork == expanded @@ (work :> urn)
         IN  ExpandWorksKeepFirst(works, Tail(order),
                 AddAbbrevKeys(withWork, GenerateWorkAbbreviations(work), urn))

RECURSIVE ExpandWorks(_, _, _)
ExpandWorks(works, order, expanded) ==
    IF Len(order) = 0 THEN expanded
    ELSE LET work == Head(order)
             urn == works[work]
             withWork == (work :> urn) @@ expanded
         IN  ExpandWorks(works, Tail(order),
                         AddAbbrevKeys(withWork, GenerateWorkAbbreviations(work), urn))

\* one visiting order of the titles for every author of a tradition
VisitOrders(data) ==
    {f \in [DOMAIN data.WorkURNs ->
              UNION {Orders(DOMAIN data.WorkURNs[a]) : a \in DOMAIN data.WorkURNs}] :
        \A a \in DOMAIN data.WorkURNs : f[a] \in Orders(DOMAIN data.WorkURNs[a])}

expandWorkTitles(data, order) ==
    [data EXCEPT !.WorkURNs =
        [a \in DOMAIN data.WorkURNs |-> ExpandWorks(data.WorkURNs[a], order[a], NoTable)]]

\* LoadComprehensiveData: the stores a run can start with
LoadedStores ==
    {[Greek |-> expandWorkTitles(GreekSource, g),
      Latin |-> expandWorkTitles(LatinSource, l),
      Schol |-> expandWorkTitles(ScholSource, s),
      Other |-> expandWorkTitles(OtherSource, o)] :
        g \in VisitOrders(GreekSource), l \in VisitOrders(LatinSource),
        s \in VisitOrders(ScholSource), o \in VisitOrders(OtherSource)}

(***************************************************************************)
(* Store accessors (data_loader.go).  A later tradition overrides an       *)
(* earlier one: Greek, Latin, Schol, Other.                                *)
(***************************************************************************)
GetAllAuthors(st) ==
    DOMAIN st.Greek.AuthURNs \cup DOMAIN st.Latin.AuthURNs
        \cup DOMAIN st.Schol.AuthURNs \cup DOMAIN st.Other.AuthURNs

GetAllAuthAbb(st) ==
    st.Other.AuthAbb @@ st.Schol.AuthAbb @@ st.Latin.AuthAbb @@ st.Greek.AuthAbb

GetAllWorkURNs(st) ==
    st.Other.WorkURNs @@ st.Schol.WorkURNs @@ st.Latin.WorkURNs @@ st.Greek.WorkURNs

GetAllAuthURNs(st) ==
    st.Other.AuthURNs @@ st.Schol.AuthURNs @@ st.Latin.AuthURNs @@ st.Greek.AuthURNs

IsSingleWorkAuthor(st, author) ==
    InSeq(st.Greek.SingleWorkAuthors, author) \/ InSeq(st.Latin.SingleWorkAuthors, author)

(***************************************************************************)
(* Author disambiguation                                                   *)
(***************************************************************************)
Markers == {"_which_pliny", "_which_seneca"}

\* one candidate identity of ResolveLatinAuthorFunction: the table exists and
\* has work as a key, or some title of it generates work.  The range loop
\* returns the same identity whichever title it meets first.
IdentityRecognizes(st, identity, work) ==
    /\ identity \in DOMAIN st.Latin.WorkURNs
    /\ \/ work \in DOMAIN st.Latin.WorkURNs[identity]
       \/ \E title \in DOMAIN st.Latin.WorkURNs[identity] :
              InSeq(GenerateWorkAbbreviations(title), work)

\* Variant of ResolveLatinAuthorFunction that has lost the two default
\* identities ("return pliny_senior // default"): an unrecognized work ends
\* in the empty result.
ResolveLatinAuthorFunctionNoDefault(st, abbrev, work) ==
    IF abbrev \notin DOMAIN st.Latin.AuthAbb THEN ""
    ELSE IF st.Latin.AuthAbb[abbrev] \notin Markers THEN st.Latin.AuthAbb[abbrev]
    ELSE IF abbrev \in {"plin.", "pliny"}
         THEN IF IdentityRecognizes(st, "pliny_senior", ToLower(work)) THEN "pliny_senior"
              ELSE IF IdentityRecognizes(st, "pliny_junior", ToLower(work)) THEN "pliny_junior"
              ELSE ""
    ELSE IF abbrev \in {"sen.", "seneca"}
         THEN IF IdentityRecognizes(st, "seneca_senior", ToLower(work)) THEN "seneca_senior"
              ELSE IF IdentityRecognizes(st, "seneca_junior", ToLower(work)) THEN "seneca_junior"
              ELSE ""
    ELSE ""

\* Variant of ResolveLatinAuthorFunction that tests the junior identity
\* before the senior one.
ResolveLatinAuthorFunctionJuniorFirst(st, abbrev, work) ==
    IF abbrev \notin DOMAIN st.Latin.AuthAbb THEN ""
    ELSE IF st.Latin.AuthAbb[abbrev] \notin Markers THEN st.Latin.AuthAbb[abbrev]
    ELSE IF abbrev \in {"plin.", "pliny"}
         THEN IF IdentityRecognizes(st, "pliny_junior", ToLower(work)) THEN "pliny_junior"
              ELSE IF IdentityRecognizes(st, "pliny_senior", ToLower(work)) THEN "pliny_senior"
              ELSE "pliny_senior"
    ELSE IF abbrev \in {"sen.", "seneca"}
         THEN IF IdentityRecognizes(st, "seneca_junior", ToLower(work)) THEN "seneca_junior"
              ELSE IF IdentityRecognizes(st, "seneca_senior", ToLower(work)) THEN "seneca_senior"
              ELSE "seneca_junior"
    ELSE ""

ResolveLatinAuthorFunction(st, abbrev, work) ==
    IF abbrev \notin DOMAIN st.Latin.AuthAbb THEN ""
    ELSE IF st.Latin.AuthAbb[abbrev] \notin Markers THEN st.Latin.AuthAbb[abbrev]
    ELSE IF abbrev \in {"plin.", "pliny"}
         THEN IF IdentityRecognizes(st, "pliny_senior", ToLower(work)) THEN "pliny_senior"
              ELSE IF IdentityRecognizes(st, "pliny_junior", ToLower(work)) THEN "pliny_junior"
              ELSE "pliny_senior"
    ELSE IF abbrev \in {"sen.", "seneca"}
         THEN IF IdentityRecognizes(st, "seneca_senior", ToLower(work)) THEN "seneca_senior"
              ELSE IF IdentityRecognizes(st, "seneca_junior", ToLower(work)) THEN "seneca_junior"
              ELSE "seneca_junior"
    ELSE ""

resolveAuthor(st, a, work) ==
    LET author == ToLower(a)
    IN  IF author \in GetAllAuthors(st) THEN author
        ELSE IF author \in DOMAIN GetAllAuthAbb(st)
             THEN IF GetAllAuthAbb(st)[author] \in Markers
                  THEN ResolveLatinAuthorFunction(st, author, work)
                  ELSE GetAllAuthAbb(st)[author]
        ELSE ""

(***************************************************************************)
(* Embedded identifiers: detectURN, formatExistingURN                      *)
(***************************************************************************)
RECURSIVE DigitRunEnd(_, _)
\* the position after the longest run of digits that starts at p
DigitRunEnd(s, p) ==
    IF p <= Len(s) /\ IsDigit(Ch(s, p)) THEN DigitRunEnd(s, p + 1) ELSE p

\* pre\d+\.pre\d+(:\d+.?\d*)?(ff)? anchored at i: the position after the
\* match (greedy, leftmost-first), 0 when there is none
MatchCodeAt(s, i, pre) ==
    LET a == i + Len(pre)
        b == DigitRunEnd(s, a)
        c == b + 1 + Len(pre)
        d == DigitRunEnd(s, c)
        f == DigitRunEnd(s, d + 1)
        g == IF f <= Len(s) /\ Ch(s, f) # "\n" THEN f + 1 ELSE f
        e == IF Ch(s, d) = ":" /\ f > d + 1 THEN DigitRunEnd(s, g) ELSE d
        h == IF Sub(s, e, e + 1) = "ff" THEN e + 2 ELSE e
    IN  IF /\ Sub(s, i, a - 1) = pre
           /\ b > a
           /\ Ch(s, b) = "."
           /\ Sub(s, b + 1, c - 1) = pre
           /\ d > c
        THEN h ELSE 0

\* regexp.FindString for one code pattern
FindCode(s, pre) ==
    LET starts == {i \in 1..Len(s) : MatchCodeAt(s, i, pre) > 0}
    IN  IF starts = {} THEN ""
        ELSE LET i == CHOOSE k \in starts : \A m \in starts : k <= m
             IN  Sub(s, i, MatchCodeAt(s, i, pre) - 1)

detectURN(ref) ==
    IF FindCode(ref, "tlg") # "" THEN FindCode(ref, "tlg")
    ELSE IF FindCode(ref, "phi") # "" THEN FindCode(ref, "phi")
    ELSE FindCode(ref, "stoa")

\* regexp `\d+.*`: from the first digit to the end of the line
FindLoc(s) ==
    LET ds == {i \in 1..Len(s) : IsDigit(Ch(s, i))}
    IN  IF ds = {} THEN ""
        ELSE LET i == CHOOSE k \in ds : \A m \in ds : k <= m
                 nls == {j \in i..Len(s) : Ch(s, j) = "\n"}
                 e == IF nls = {} THEN Len(s)
                      ELSE (CHOOSE k \in nls : \A m \in nls : k <= m) - 1
             IN  Sub(s, i, e)

formatExistingURN(ref, urnPart) ==
    LET index == Index(ref, urnPart)
        remaining == Sub(ref, index + Len(urnPart), Len(ref))
        loc == FindLoc(remaining)
    IN  IF Contains(urnPart, "tlg")
        THEN LET base == IF Contains(urnPart, "urn:cts:greekLit") THEN urnPart
                         ELSE "urn:cts:greekLit:" \o urnPart
             IN  IF loc # "" THEN base \o ".perseus-grc2:" \o loc
                 ELSE base \o ".perseus-grc2"
        ELSE IF Contains(urnPart, "phi")
        THEN LET base == IF Contains(urnPart, "urn:cts:latinLit") THEN urnPart
                         ELSE "urn:cts:latinLit:" \o urnPart
             IN  IF loc # "" THEN base \o ".perseus-lat2:" \o loc
                 ELSE base \o ".perseus-lat2"
        ELSE urnPart

(***************************************************************************)
(* Reference selector: GetRef                                              *)
(***************************************************************************)
AlphaSet == LowerLetters \cup UpperLetters

SpaceSet == {" ", "\t", "\n", "\r"}

\* regexp building blocks on the set P of positions reached so far
StepOne(s, P, class) == {p + 1 : p \in {q \in P : q <= Len(s) /\ Ch(s, q) \in class}}

StepOpt(s, P, class) == P \cup StepOne(s, P, class)

StepPlus(s, P, class) ==
    {q \in 2..(Len(s) + 1) :
        \E p \in P : p < q /\ \A k \in p..(q - 1) : Ch(s, k) \in class}

StepStar(s, P, class) == P \cup StepPlus(s, P, class)

\* ([a-zA-Z]+\.?\s?[a-zA-Z]*)
StepName(s, P) ==
    StepStar(s, StepOpt(s, StepOpt(s, StepPlus(s, P, AlphaSet), {"."}), SpaceSet), AlphaSet)

\* \d+(\s|\.|:)\d+
StepNumNum(s, P) ==
    StepPlus(s, StepOne(s, StepPlus(s, P, Digits), SpaceSet \cup {".", ":"}), Digits)

\* regexp.MatchString(patterns[k], s): an unanchored search, k = 1 the best
MatchPattern(k, s) ==
    LET all == 1..(Len(s) + 1)
        two == StepOne(s, StepName(s, StepOne(s, StepName(s, all), {" "})), {" "})
        one == StepOne(s, StepOpt(s, StepPlus(s, all, AlphaSet), {"."}), {" "})
    IN  CASE k = 1 -> StepNumNum(s, two) # {}
          [] k = 2 -> StepPlus(s, two, Digits) # {}
          [] k = 3 -> StepNumNum(s, one) # {}
          [] k = 4 -> StepPlus(s, one, Digits) # {}

hasRecognizedAuthor(st, split) ==
    \E i \in 1..Min(3, Len(split)) :
        LET candidate == Join(SubSeq(split, 1, i), " ")
        IN  candidate \in DOMAIN GetAllAuthAbb(st) \/ candidate \in GetAllAuthors(st)

\* regexp `\d.*` replaced by "": the text before the first digit (one line)
CutAtDigit(s) ==
    LET ds == {i \in 1..Len(s) : IsDigit(Ch(s, i))}
    IN  IF ds = {} THEN s
        ELSE Sub(s, 1, (CHOOSE k \in ds : \A m \in ds : k <= m) - 1)

hasRecognizedWork(st, ref) ==
    LET split == Fields(ref)
        cands == {i \in 1..Min(3, Len(split)) :
                    LET candidate == Join(SubSeq(split, 1, i), " ")
                    IN  candidate \in DOMAIN GetAllAuthAbb(st)
                            \/ candidate \in GetAllAuthors(st)}
        authLen == IF cands = {} THEN 0 ELSE CHOOSE k \in cands : \A m \in cands : k <= m
        candidate == Join(SubSeq(split, 1, authLen), " ")
        author == IF authLen = 0 THEN ""
                  ELSE IF candidate \in DOMAIN GetAllAuthAbb(st)
                       THEN GetAllAuthAbb(st)[candidate]
                       ELSE candidate
        workPart == TrimSpace(CutAtDigit(Join(SubSeq(split, authLen + 1, Len(split)), " ")))
        workSplit == Fields(workPart)
    IN  IF Len(split) < 2 THEN FALSE
        ELSE IF author = "" \/ authLen >= Len(split) THEN FALSE
        ELSE IF author \notin DOMAIN GetAllWorkURNs(st) THEN FALSE
        ELSE \E i \in 1..Min(3, Len(workSplit)) :
                Join(SubSeq(workSplit, 1, i), " ") \in DOMAIN GetAllWorkURNs(st)[author]

\* the literal the section-mark pattern of GetRef is written with (two
\* non-ASCII runes in the source); one ASCII character stands for it here
SectionMark == "$"

RECURSIVE CollapseRange(_, _, _, _)
\* positions lo..hi of s with every run of whitespace replaced by with (the
\* run is replaced where it starts); halved so that long texts stay shallow
CollapseRange(s, with, lo, hi) ==
    IF lo > hi THEN ""
    ELSE IF lo = hi
    THEN IF ~IsSpace(Ch(s, lo)) THEN Ch(s, lo)
         ELSE IF lo > 1 /\ IsSpace(Ch(s, lo - 1)) THEN ""
         ELSE with
    ELSE CollapseRange(s, with, lo, (lo + hi) \div 2)
             \o CollapseRange(s, with, ((lo + hi) \div 2) + 1, hi)

\* regexp `\s+` replaced by with
CollapseSpace(s, with) == CollapseRange(s, with, 1, Len(s))

RECURSIVE StripTitleTags(_)
\* regexp `<title.*?>` replaced by ""
StripTitleTags(s) ==
    IF s = "" THEN ""
    ELSE LET closes == {j \in 7..Len(s) :
                          Ch(s, j) = ">" /\ \A k \in 7..j : Ch(s, k) # "\n"}
         IN  IF HasPrefix(s, "<title") /\ closes # {}
             THEN StripTitleTags(
                      Sub(s, (CHOOSE k \in closes : \A m \in closes : k <= m) + 1, Len(s)))
             ELSE Head(s) \o StripTitleTags(Tail(s))

RECURSIVE SectionMarks(_)
\* regexp ` *<mark> *` replaced by "."
SectionMarks(s) ==
    IF s = "" THEN ""
    ELSE LET t == IF Head(s) = " " THEN TrimLeft(s) ELSE s
             spacesOnly == \A k \in 1..(Len(s) - Len(t)) : Ch(s, k) = " "
         IN  IF spacesOnly /\ HasPrefix(t, SectionMark)
             THEN LET u == Sub(t, Len(SectionMark) + 1, Len(t))
                      spaces == {n \in 0..Len(u) : \A k \in 1..n : Ch(u, k) = " "}
                      n == CHOOSE k \in spaces : \A m \in spaces : m <= k
                  IN  "." \o SectionMarks(Sub(u, n + 1, Len(u)))
             ELSE Head(s) \o SectionMarks(Tail(s))

RECURSIVE CloseUpDigitLetter(_)
\* regexp `(\d+) ([A-Za-z])` replaced by "$1$2"
CloseUpDigitLetter(s) ==
    IF s = "" THEN ""
    ELSE IF IsDigit(Head(s)) /\ Ch(s, 2) = " " /\ IsAlpha(Ch(s, 3))
         THEN Head(s) \o Ch(s, 3) \o CloseUpDigitLetter(Sub(s, 4, Len(s)))
         ELSE Head(s) \o CloseUpDigitLetter(Tail(s))

\* the cleaning loop of GetRef for one non-empty input
CleanRef(r) ==
    LET r1 == TrimSpace(CollapseSpace(r, " "))
        r2 == ReplaceAll(StripTitleTags(r1), "</title>", "")
        r3 == ReplaceAll(ReplaceAll(r2, "(", ""), ")", "")
        r4 == ReplaceAll(r3, ", ", " ")
    IN  CloseUpDigitLetter(SectionMarks(r4))

NormalizeRef(x) ==
    LET lowered == IF x # "" THEN ToLower(TrimSpace(x)) ELSE x
    IN  IF lowered # "" THEN CleanRef(lowered) ELSE lowered

RECURSIVE ScanAttributeFirst(_, _, _, _)
\* Variant of ScanPatterns with the two loops exchanged: the attribute value
\* is tried against all four patterns before the inline text is tried at all.
ScanAttributeFirst(st, k, nAttr, biblContent) ==
    IF k > 8 THEN "none"
    ELSE IF k <= 4 /\ MatchPattern(k, nAttr) /\ hasRecognizedAuthor(st, Fields(nAttr))
         THEN "nAttr"
    ELSE IF k > 4 /\ MatchPattern(k - 4, biblContent)
                  /\ hasRecognizedAuthor(st, Fields(biblContent))
         THEN "biblContent"
    ELSE ScanAttributeFirst(st, k + 1, nAttr, biblContent)

RECURSIVE ScanPatterns(_, _, _, _)
\* the loop over patterns, from pattern k on: the candidate returned, or
\* "none" when the loop ends without returning
ScanPatterns(st, k, nAttr, biblContent) ==
    IF k > 4 THEN "none"
    ELSE IF MatchPattern(k, nAttr) /\ hasRecognizedAuthor(st, Fields(nAttr)) THEN "nAttr"
    ELSE IF MatchPattern(k, biblContent) /\ hasRecognizedAuthor(st, Fields(biblContent))
         THEN "biblContent"
    ELSE ScanPatterns(st, k + 1, nAttr, biblContent)

\* Variant of GetRef without the two early returns: an empty side goes on to
\* the pattern scan and the author checks like any other.
GetRefNoEarlyReturn(st, n, bibl) ==
    With(NormalizeRef(n), LAMBDA nAttr :
    With(NormalizeRef(bibl), LAMBDA biblContent :
        IF detectURN(nAttr) # "" THEN nAttr
        ELSE With(ScanPatterns(st, 1, nAttr, biblContent), LAMBDA scan :
             IF scan = "nAttr" THEN nAttr
             ELSE IF scan = "biblContent" THEN biblContent
             ELSE With(hasRecognizedAuthor(st, Fields(nAttr)), LAMBDA nAuthRec :
                  With(hasRecognizedAuthor(st, Fields(biblContent)), LAMBDA biblAuthRec :
                      IF nAuthRec /\ ~biblAuthRec THEN nAttr
                      ELSE IF biblAuthRec /\ ~nAuthRec THEN biblContent
                      ELSE IF nAuthRec /\ biblAuthRec /\ hasRecognizedWork(st, nAttr)
                           THEN nAttr
                      ELSE IF nAuthRec /\ biblAuthRec /\ hasRecognizedWork(st, biblContent)
                           THEN biblContent
                      ELSE "")))))

GetRef(st, n, bibl) ==
    With(NormalizeRef(n), LAMBDA nAttr :
    With(NormalizeRef(bibl), LAMBDA biblContent :
        IF biblContent = "" \/ TrimSpace(biblContent) = ""
        THEN IF nAttr # "" THEN nAttr ELSE ""
        ELSE IF nAttr = "" \/ TrimSpace(nAttr) = "" THEN biblContent
        ELSE IF detectURN(nAttr) # "" THEN nAttr
        ELSE With(ScanPatterns(st, 1, nAttr, biblContent), LAMBDA scan :
             IF scan = "nAttr" THEN nAttr
             ELSE IF scan = "biblContent" THEN biblContent
             ELSE With(hasRecognizedAuthor(st, Fields(nAttr)), LAMBDA nAuthRec :
                  With(hasRecognizedAuthor(st, Fields(biblContent)), LAMBDA biblAuthRec :
                      IF nAuthRec /\ ~biblAuthRec THEN nAttr
                      ELSE IF biblAuthRec /\ ~nAuthRec THEN biblContent
                      ELSE IF nAuthRec /\ biblAuthRec /\ hasRecognizedWork(st, nAttr)
                           THEN nAttr
                      ELSE IF nAuthRec /\ biblAuthRec /\ hasRecognizedWork(st, biblContent)
                           THEN biblContent
                      ELSE "")))))

(***************************************************************************)
(* Reference parser: parseReference                                        *)
(***************************************************************************)
RomanNumerals ==
    {"i", "ii", "iii", "iv", "v", "vi", "vii", "viii", "ix", "x",
     "xi", "xii", "xiii", "xiv", "xv", "xvi", "xvii", "xviii", "xix", "xx"}

looksLikeRomanNumeral(text) ==
    TrimSuffix(ToLower(TrimSpace(text)), ".") \in RomanNumerals

looksLikeBookReference(w) ==
    LET work == ToLower(TrimSpace(w))
    IN  \/ work \in RomanNumerals
        \/ TrimSuffix(work, ".") \in RomanNumerals /\ HasSuffix(work, ".")
        \/ /\ TrimSuffix(work, ".") # ""
           /\ AllDigits(TrimSuffix(work, "."))

processWorkTitles(st, author, remaining) ==
    With(resolveAuthor(st, author, ""), LAMBDA resolvedAuthor :
    With(Fields(remaining), LAMBDA words :
        IF resolvedAuthor = "" THEN remaining
        ELSE IF resolvedAuthor \notin DOMAIN GetAllWorkURNs(st) THEN remaining
        ELSE IF Len(words) < 2 THEN remaining
        ELSE With(GetAllWorkURNs(st)[resolvedAuthor], LAMBDA authorWorks :
             With({i \in 2..Len(words) :
                      ToLower(Join(SubSeq(words, 1, i), " ")) \in DOMAIN authorWorks},
                  LAMBDA hits :
                 IF hits = {} THEN remaining
                 ELSE With(CHOOSE k \in hits : \A m \in hits : k <= m, LAMBDA i :
                      With(Join(SubSeq(words, 1, i), "_"), LAMBDA underscored :
                      With(Join(SubSeq(words, i + 1, Len(words)), " "), LAMBDA rest :
                          IF rest # "" THEN underscored \o " " \o rest
                          ELSE underscored)))))))

RECURSIVE TrimDots(_)
\* strings.Trim(s, ".")
TrimDots(s) ==
    IF s # "" /\ Head(s) = "." THEN TrimDots(Tail(s))
    ELSE IF s # "" /\ Ch(s, Len(s)) = "." THEN TrimDots(Sub(s, 1, Len(s) - 1))
    ELSE s

RECURSIVE CollapseDots(_)
\* regexp `\.+` replaced by "."
CollapseDots(s) ==
    IF s = "" THEN ""
    ELSE IF Head(s) = "." /\ Ch(s, 2) = "." THEN CollapseDots(Tail(s))
    ELSE Head(s) \o CollapseDots(Tail(s))

\* Variant of the passage clean-up that leaves runs of periods as they are.
CleanPassageKeepRuns(passage) == TrimDots(CollapseSpace(passage, "."))

\* the passage clean-up of parseReference
CleanPassage(passage) == CollapseDots(TrimDots(CollapseSpace(passage, ".")))

\* strings.LastIndex for a one-character sub, as a position (0 when absent)
LastIndex(s, sub) ==
    IF ~Contains(s, sub) THEN 0
    ELSE CHOOSE i \in 1..Len(s) :
             /\ Ch(s, i) = sub
             /\ \A j \in (i + 1)..Len(s) : Ch(s, j) # sub

\* Variant of the scan that splits a single token at its last period.
ScanPartsSplitLast(author, parts, starts) ==
       (IF Len(parts) = 0 THEN [author |-> author, work |-> "", passage |-> ""]
        ELSE IF Len(parts) = 1 /\ Contains(parts[1], ".")
             THEN With(LastIndex(parts[1], "."), LAMBDA dot :
                      [author |-> author,
                       work |-> Sub(parts[1], 1, dot - 1),
                       passage |-> Sub(parts[1], dot + 1, Len(parts[1]))])
        ELSE IF starts # {}
             THEN With(CHOOSE k \in starts : \A m \in starts : k <= m, LAMBDA i :
                      [author |-> author,
                       work |-> Join(SubSeq(parts, 1, i - 1), " "),
                       passage |-> CleanPassage(Join(SubSeq(parts, i, Len(parts)), " "))])
        ELSE [author |-> author, work |-> Join(parts, " "), passage |-> ""])

\* the scan of parseReference over the parts of the remainder; starts holds
\* the positions of the parts that can start the passage
ScanParts(author, parts, starts) ==
       (IF Len(parts) = 0 THEN [author |-> author, work |-> "", passage |-> ""]
        ELSE IF Len(parts) = 1 /\ Contains(parts[1], ".")
             THEN With(Index(parts[1], "."), LAMBDA dot :
                      [author |-> author,
                       work |-> Sub(parts[1], 1, dot - 1),
                       passage |-> Sub(parts[1], dot + 1, Len(parts[1]))])
        ELSE IF starts # {}
             THEN With(CHOOSE k \in starts : \A m \in starts : k <= m, LAMBDA i :
                      [author |-> author,
                       work |-> Join(SubSeq(parts, 1, i - 1), " "),
                       passage |-> CleanPassage(Join(SubSeq(parts, i, Len(parts)), " "))])
        ELSE [author |-> author, work |-> Join(parts, " "), passage |-> ""])

\* the author of parseReference: the first two tokens when they are a known
\* abbreviation or author, the first token otherwise
LeadingAuthor(st, split) ==
    With(Join(SubSeq(split, 1, 2), " "), LAMBDA bigram :
        IF /\ Len(split) > 1
           /\ \/ bigram \in DOMAIN GetAllAuthAbb(st)
              \/ bigram \in GetAllAuthors(st)
        THEN bigram
        ELSE split[1])

\* Variant of parseReference whose scan takes only a token starting with a
\* digit for the start of the passage, not a Roman numeral.
parseReferenceDigitsOnly(st, r) ==
    With(Fields(TrimSpace(r)), LAMBDA split :
        IF Len(split) = 0 THEN [author |-> "", work |-> "", passage |-> ""]
        ELSE With(LeadingAuthor(st, split), LAMBDA author :
             With(Len(Fields(author)), LAMBDA authLen :
                 IF authLen >= Len(split)
                 THEN [author |-> author, work |-> "", passage |-> ""]
                 ELSE With(processWorkTitles(st, author,
                               Join(SubSeq(split, authLen + 1, Len(split)), " ")),
                           LAMBDA remaining :
                          With(Fields(remaining), LAMBDA parts :
                              ScanParts(author, parts,
                                  {i \in 1..Len(parts) : IsDigit(Ch(parts[i], 1))}))))))

parseReference(st, r) ==
    With(Fields(TrimSpace(r)), LAMBDA split :
        IF Len(split) = 0 THEN [author |-> "", work |-> "", passage |-> ""]
        ELSE With(LeadingAuthor(st, split), LAMBDA author :
             With(Len(Fields(author)), LAMBDA authLen :
                 IF authLen >= Len(split)
                 THEN [author |-> author, work |-> "", passage |-> ""]
                 ELSE With(processWorkTitles(st, author,
                               Join(SubSeq(split, authLen + 1, Len(split)), " ")),
                           LAMBDA remaining :
                          With(Fields(remaining), LAMBDA parts :
                              ScanParts(author, parts,
                                  {i \in 1..Len(parts) :
                                      \/ IsDigit(Ch(parts[i], 1))
                                      \/ looksLikeRomanNumeral(parts[i])}))))))

(***************************************************************************)
(* Identifier resolver: getWorkURN, GetURN                                 *)
(***************************************************************************)
DigitSeq == "0123456789"

DigitValue(c) == (CHOOSE i \in 1..Len(DigitSeq) : Ch(DigitSeq, i) = c) - 1

RECURSIVE Atoi(_)
Atoi(s) ==
    IF s = "" THEN 0
    ELSE 10 * Atoi(Sub(s, 1, Len(s) - 1)) + DigitValue(Ch(s, Len(s)))

RECURSIVE Itoa(_)
Itoa(n) ==
    IF n < 10 THEN Ch(DigitSeq, n + 1)
    ELSE Itoa(n \div 10) \o Ch(DigitSeq, (n % 10) + 1)

\* fmt.Sprintf("%03d", n), n >= 0
Pad3(n) ==
    IF n < 10 THEN "00" \o Itoa(n)
    ELSE IF n < 100 THEN "0" \o Itoa(n)
    ELSE Itoa(n)

isNumeric(s) == s # "" /\ AllDigits(s)

determineLiteratureSuffix(authURN) ==
    IF Contains(authURN, "greekLit") THEN "perseus-grc2"
    ELSE IF Contains(authURN, "latinLit") THEN "perseus-lat2"
    ELSE IF Contains(authURN, "englishLit") THEN "perseus-eng2"
    ELSE IF Contains(authURN, "greekSchol") THEN "perseus-grc2"
    ELSE "perseus-grc2"

constructNumericWorkURN(st, author, work) ==
    LET authURN == GetAllAuthURNs(st)[author]
        prefix == IF Contains(authURN, "greekLit") THEN "tlg" ELSE "phi"
    IN  IF author \notin DOMAIN GetAllAuthURNs(st) THEN ""
        ELSE IF ~Contains(authURN, "greekLit") /\ ~Contains(authURN, "latinLit") THEN ""
        ELSE IF HasPrefix(work, "0") THEN prefix \o work
        ELSE prefix \o "0" \o work

\* Variant of handleWorkRange that formats the number without the bounds test.
handleWorkRangeUnbounded(work, rng) ==
    With({i \in 1..Len(work) : IsDigit(Ch(work, i))}, LAMBDA ds :
        IF ds = {} THEN ""
        ELSE With(CHOOSE k \in ds : \A m \in ds : k <= m, LAMBDA i :
                 rng.prefix \o Pad3(Atoi(Sub(work, i, DigitRunEnd(work, i) - 1)))))

handleWorkRange(work, rng) ==
    With({i \in 1..Len(work) : IsDigit(Ch(work, i))}, LAMBDA ds :
        IF ds = {} THEN ""
        ELSE With(CHOOSE k \in ds : \A m \in ds : k <= m, LAMBDA i :
             With(Atoi(Sub(work, i, DigitRunEnd(work, i) - 1)), LAMBDA num :
                 IF num >= rng.start /\ num <= rng.end THEN rng.prefix \o Pad3(num)
                 ELSE "")))

\* the titles whose generated abbreviations hold work (the second-priority
\* loop of getWorkURN); only a Simple identifier is collected
AbbreviationTitles(authorWorks, work) ==
    {title \in DOMAIN authorWorks :
        /\ title # work
        /\ InSeq(GenerateWorkAbbreviations(title), work)
        /\ IsSimple(authorWorks[title])}

\* first: the title the range loop over the table reaches before the other
\* titles (Go leaves the order of a map range unspecified)
getWorkURN(st, author, w, first) ==
    With(ToLower(w), LAMBDA work :
        IF author \notin DOMAIN GetAllWorkURNs(st)
        THEN IF isNumeric(work) THEN constructNumericWorkURN(st, author, work)
             ELSE "tlg001"
        ELSE With(GetAllWorkURNs(st)[author], LAMBDA authorWorks :
                 IF work \in DOMAIN authorWorks /\ IsSimple(authorWorks[work])
                 THEN authorWorks[work].code
                 ELSE IF work \in DOMAIN authorWorks
                      THEN handleWorkRange(work, authorWorks[work])
                 ELSE With(AbbreviationTitles(authorWorks, work), LAMBDA hits :
                          IF first \in hits THEN authorWorks[first].code
                          ELSE IF hits # {}
                               THEN authorWorks[CHOOSE t \in hits : TRUE].code
                          ELSE IF isNumeric(work)
                               THEN constructNumericWorkURN(st, author, work)
                          ELSE "tlg001")))

RECURSIVE SplitOn(_, _, _, _)
\* regexp.Split(s, -1) for a one-character class of separators
SplitOn(s, seps, cur, acc) ==
    IF s = "" THEN Append(acc, cur)
    ELSE IF Head(s) \in seps THEN SplitOn(Tail(s), seps, "", Append(acc, cur))
    ELSE SplitOn(Tail(s), seps, cur \o Head(s), acc)

handleSingleWorkAuthor(st, author, passage, originalRef) ==
    IF author \notin DOMAIN GetAllAuthURNs(st) THEN ""
    ELSE With(GetAllAuthURNs(st)[author], LAMBDA authURN :
         With(authURN \o "." \o "tlg001" \o "." \o determineLiteratureSuffix(authURN),
              LAMBDA edition :
         With(SelectSeq(SplitOn(originalRef, SpaceSet \cup {",", ".", ":"}, "", <<>>),
                        LAMBDA part : IsDigit(Ch(part, 1))),
              LAMBDA numerics :
             IF Len(numerics) > 0 THEN edition \o ":" \o Join(numerics, ".")
             ELSE edition)))

\* Variant of the "ff" step that knows the unabbreviated spelling only.
NormalizeFFNoPeriod(ref) ==
    IF HasSuffix(ref, "ff")
    THEN IF Len(ref) > 2 /\ Ch(ref, Len(ref) - 2) = " "
         THEN Sub(ref, 1, Len(ref) - 3) \o Sub(ref, Len(ref) - 1, Len(ref))
         ELSE ref
    ELSE ref

\* the "ff" step of GetURN
NormalizeFF(ref) ==
    IF HasSuffix(ref, "ff")
    THEN IF Len(ref) > 2 /\ Ch(ref, Len(ref) - 2) = " "
         THEN Sub(ref, 1, Len(ref) - 3) \o Sub(ref, Len(ref) - 1, Len(ref))
         ELSE ref
    ELSE IF HasSuffix(ref, "ff.")
    THEN IF Len(ref) > 3 /\ Ch(ref, Len(ref) - 3) = " "
         THEN Sub(ref, 1, Len(ref) - 4) \o "ff"
         ELSE Sub(ref, 1, Len(ref) - 3) \o "ff"
    ELSE ref

\* GetURN from the parsed reference on
ResolveParsed(st, ref, author, work, passage, first) ==
    With(resolveAuthor(st, author, work), LAMBDA resolvedAuthor :
        IF author = "" THEN ""
        ELSE IF resolvedAuthor = "" THEN ""
        ELSE IF /\ IsSingleWorkAuthor(st, resolvedAuthor)
                /\ work # ""
                /\ looksLikeBookReference(work)
             THEN handleSingleWorkAuthor(st, resolvedAuthor,
                      IF passage # "" THEN work \o "." \o passage ELSE work, ref)
        ELSE IF IsSingleWorkAuthor(st, resolvedAuthor) /\ work = ""
             THEN handleSingleWorkAuthor(st, resolvedAuthor, passage, ref)
        ELSE IF resolvedAuthor \notin DOMAIN GetAllAuthURNs(st) THEN ""
        ELSE With(GetAllAuthURNs(st)[resolvedAuthor], LAMBDA authURN :
             With(getWorkURN(st, resolvedAuthor, work, first), LAMBDA workURN :
                 IF workURN = "" THEN ""
                 ELSE IF passage # ""
                      THEN authURN \o "." \o workURN \o "."
                               \o determineLiteratureSuffix(authURN) \o ":" \o passage
                 ELSE authURN \o "." \o workURN \o "."
                          \o determineLiteratureSuffix(authURN))))

GetURN(st, r, first) ==
    IF r = "" THEN ""
    ELSE With(NormalizeFF(r), LAMBDA ref :
         With(detectURN(ref), LAMBDA urnPart :
             IF urnPart # "" THEN formatExistingURN(ref, urnPart)
             ELSE With(parseReference(st, ref), LAMBDA parsed :
                      ResolveParsed(st, ref, parsed.author, parsed.work,
                                    parsed.passage, first))))

(***************************************************************************)
(* Inputs of the abbreviation generator                                    *)
(***************************************************************************)
MaxTitleLen == 4

TitleAlphabet == {"A", "s", "d", "e", "1", " "}

RECURSIVE StringsOfLen(_, _)
StringsOfLen(A, n) ==
    IF n = 0 THEN {""} ELSE {s \o c : s \in StringsOfLen(A, n - 1), c \in A}

\* longer titles: the two of TestWorkAbbreviations, and two that hold the
\* two-byte character
LongTitles ==
    {"cymbeline", "electra",
     ByteC3 \o ByteA9 \o "lan",
     ByteC3 \o ByteA9 \o ByteC3 \o ByteA9 \o ByteC3 \o ByteA9 \o ByteC3 \o ByteA9
         \o ByteC3 \o ByteA9}

Titles == UNION {StringsOfLen(TitleAlphabet, n) : n \in 0..MaxTitleLen} \cup LongTitles

InitGenerate ==
    /\ store \in LoadedStores
    /\ op = "GenerateWorkAbbreviations"
    /\ arg1 \in Titles
    /\ arg2 = ""
    /\ pc = "ready"
    /\ out = <<>>
    /\ NewCitationProcessor

CallGenerate ==
    /\ op = "GenerateWorkAbbreviations"
    /\ pc = "ready"
    /\ out' = GenerateWorkAbbreviations(arg1)
    /\ pc' = "done"
    /\ UNCHANGED <<store, op, arg1, arg2>>
    /\ UNCHANGED procVars

SpecGenerate == InitGenerate /\ [][CallGenerate]_vars

\* a title made of digits only (the "^\d+$" test)
NumericOnly(t) == t # "" /\ AllDigits(t)

\* a title without any non-whitespace character
Blank(t) == TrimSpace(t) = ""

\* C4 as stated: for every title t, numeric-only and whitespace-only titles
\* included, generate(t) contains the lowercased t and never contains the
\* empty string.
C4_ContainsTitleAlways ==
    (op = "GenerateWorkAbbreviations" /\ pc = "done") =>
        /\ InSeq(out, ToLower(arg1))
        /\ ~InSeq(out, "")

\* C4 as amended: generate(t) never contains the empty string, and it
\* contains the lowercased t for every title t that is not numeric-only and
\* has a non-whitespace character.
C4_ContainsTitle ==
    (op = "GenerateWorkAbbreviations" /\ pc = "done") =>
        /\ ~InSeq(out, "")
        /\ (~NumericOnly(arg1) /\ ~Blank(arg1)) => InSeq(out, ToLower(arg1))

C4_Witness ==
    /\ op = "GenerateWorkAbbreviations"
    /\ pc = "done"
    /\ arg1 = "As 1"
    /\ InSeq(out, "as 1")
    /\ Len(out) > 1

\* the number of bytes of the character that starts with byte b
RuneLen(b) == IF b = ByteC3 THEN 2 ELSE 1

RECURSIVE RuneCount(_)
\* utf8.RuneCountInString: the length of w in characters
RuneCount(w) ==
    IF w = "" THEN 0 ELSE 1 + RuneCount(Sub(w, RuneLen(Ch(w, 1)) + 1, Len(w)))

RECURSIVE RunePrefix(_, _)
\* the first k characters of w
RunePrefix(w, k) ==
    IF k = 0 \/ w = "" THEN ""
    ELSE Sub(w, 1, RuneLen(Ch(w, 1)))
             \o RunePrefix(Sub(w, RuneLen(Ch(w, 1)) + 1, Len(w)), k - 1)

\* a title that is one word: no whitespace in it, and not empty
SingleWord(t) == Fields(t) = <<t>>

\* C17: for every single-word, non-numeric title, with w the lowercased
\* title, generate contains the first character of w with and without a
\* trailing period, every prefix of w of 2..min(6, length of w) characters
\* with and without a trailing period, and w itself.
C17_PrefixesOfSingleWord ==
    (op = "GenerateWorkAbbreviations" /\ pc = "done") =>
        LET w == ToLower(arg1)
        IN  (SingleWord(arg1) /\ ~NumericOnly(arg1)) =>
                /\ InSeq(out, RunePrefix(w, 1))
                /\ InSeq(out, RunePrefix(w, 1) \o ".")
                /\ \A k \in 2..Min(6, RuneCount(w)) :
                       /\ InSeq(out, RunePrefix(w, k))
                       /\ InSeq(out, RunePrefix(w, k) \o ".")
                /\ InSeq(out, w)

(***************************************************************************)
(* The Author Disambiguator called once on an (abbreviation, work) pair    *)
(***************************************************************************)
AuthorInputs ==
    {"plin.", "Plin.", "pliny", "sen.", "seneca", "Seneca", "soph.", "sophocles",
     "lucr.", "shak.", "zz.", ""}

WorkInputs ==
    {"", "zz", "ep.", "Epistulae", "nat.", "naturalis historia", "n.h.",
     "controv.", "oed.", "clem.", "c.", "c", "e", "el."}

InitAuthor ==
    /\ store \in LoadedStores
    /\ op = "resolveAuthor"
    /\ arg1 \in AuthorInputs
    /\ arg2 \in WorkInputs
    /\ pc = "ready"
    /\ out = <<>>
    /\ NewCitationProcessor

CallAuthor ==
    /\ op = "resolveAuthor"
    /\ pc = "ready"
    /\ out' = resolveAuthor(store, arg1, arg2)
    /\ pc' = "done"
    /\ UNCHANGED <<store, op, arg1, arg2>>
    /\ UNCHANGED procVars

SpecAuthor == InitAuthor /\ [][CallAuthor]_vars

\* the abbreviation of the call is stored with a disambiguation marker
MarkerCall ==
    /\ op = "resolveAuthor"
    /\ pc = "done"
    /\ ToLower(arg1) \notin GetAllAuthors(store)
    /\ ToLower(arg1) \in DOMAIN GetAllAuthAbb(store)
    /\ GetAllAuthAbb(store)[ToLower(arg1)] \in Markers

\* the two candidate identities of a marker, in the documented order
Senior(marker) == IF marker = "_which_pliny" THEN "pliny_senior" ELSE "seneca_senior"

Junior(marker) == IF marker = "_which_pliny" THEN "pliny_junior" ELSE "seneca_junior"

DefaultIdentity(marker) == IF marker = "_which_pliny" THEN "pliny_senior" ELSE "seneca_junior"

\* a WorkTable recognizes a work: the lowercased work is one of its keys or
\* a generated abbreviation of one of its keys
Recognizes(table, work) ==
    \/ ToLower(work) \in DOMAIN table
    \/ \E title \in DOMAIN table :
           \E i \in 1..Len(GenerateWorkAbbreviations(title)) :
               GenerateWorkAbbreviations(title)[i] = ToLower(work)

SelectInputs ==
    {"", " ", "( )", "Soph. OT 151", "O. T. 151 lyr.", "hom. il. 1.1",
     "Hom.  Il. 1", "hom. 1.1", "hom. 1", "soph. zz", "hom. qq", "soph. el.",
     "zz el. 1", "zz. 1.1", "tlg0011.tlg004 151", "(hom.) il., 1 a",
     "<title>il.</title> 5", "soph. $ 3", "ap. rhod. 1.5", "dem. or. 19"}

InitSelect ==
    /\ store \in LoadedStores
    /\ op = "GetRef"
    /\ arg1 \in SelectInputs
    /\ arg2 \in SelectInputs
    /\ pc = "ready"
    /\ out = <<>>
    /\ NewCitationProcessor

CallSelect ==
    /\ op = "GetRef"
    /\ pc = "ready"
    /\ out' = GetRef(store, arg1, arg2)
    /\ pc' = "done"
    /\ UNCHANGED <<store, op, arg1, arg2>>
    /\ UNCHANGED procVars

SpecSelect == InitSelect /\ [][CallSelect]_vars

SelectDone == op = "GetRef" /\ pc = "done"

\* C7 as stated: with an empty inline text the result is the normalized
\* attribute value, and with an empty attribute value it is the normalized
\* inline text, without any author or pattern check.
C7_EmptySideReturnsOther ==
    SelectDone =>
        /\ NormalizeRef(arg2) = "" => out = NormalizeRef(arg1)
        /\ NormalizeRef(arg1) = "" => out = NormalizeRef(arg2)

\* C7 as amended: when the normalized inline text is empty or only
\* whitespace the result is the normalized attribute value; otherwise, when
\* the normalized attribute value is empty or only whitespace, the result is
\* the normalized inline text; no author or pattern check in either case.
C7_BlankSideReturnsOther ==
    SelectDone =>
        /\ Blank(NormalizeRef(arg2)) => out = NormalizeRef(arg1)
        /\ (~Blank(NormalizeRef(arg2)) /\ Blank(NormalizeRef(arg1)))
               => out = NormalizeRef(arg2)

\* an inline text no pattern or author check would accept is returned
C7_Witness ==
    /\ SelectDone
    /\ arg1 = ""
    /\ arg2 = "zz. 1.1"
    /\ ~hasRecognizedAuthor(store, Fields(NormalizeRef(arg2)))
    /\ out = "zz. 1.1"

\* the candidates in scan order: pattern 1 on the attribute value, pattern 1
\* on the inline text, pattern 2 on the attribute value, ...
ScanOrder(nAttr, biblContent) ==
    [i \in 1..8 |-> [pattern |-> (i + 1) \div 2,
                     candidate |-> IF i % 2 = 1 THEN nAttr ELSE biblContent]]

Qualifies(st, c) ==
    /\ MatchPattern(c.pattern, c.candidate)
    /\ hasRecognizedAuthor(st, Fields(c.candidate))

\* both sides non-blank after normalization, no embedded identifier in the
\* attribute value
ScanReached(nAttr, biblContent) ==
    /\ ~Blank(nAttr)
    /\ ~Blank(biblContent)
    /\ detectURN(nAttr) = ""

\* C8: with both inputs non-empty and no embedded identifier in the
\* attribute, the result is the first candidate, in the order best pattern to
\* worst and attribute before inline within a pattern, that matches the
\* pattern and starts with a recognized author.
C8_FirstQualifyingCandidate ==
    SelectDone =>
        LET nAttr == NormalizeRef(arg1)
            biblContent == NormalizeRef(arg2)
            order == ScanOrder(nAttr, biblContent)
        IN  ScanReached(nAttr, biblContent) =>
                \A i \in 1..8 :
                    (/\ Qualifies(store, order[i])
                     /\ \A j \in 1..(i - 1) : ~Qualifies(store, order[j]))
                    => out = order[i].candidate

\* the inline text qualifies at the best pattern, the attribute value only
\* at the worst: the inline text is returned
C8_Witness ==
    /\ SelectDone
    /\ arg1 = "hom. 1"
    /\ arg2 = "hom. il. 1.1"
    /\ Qualifies(store, [pattern |-> 4, candidate |-> "hom. 1"])
    /\ ~Qualifies(store, [pattern |-> 3, candidate |-> "hom. 1"])
    /\ Qualifies(store, [pattern |-> 1, candidate |-> "hom. il. 1.1"])
    /\ out = "hom. il. 1.1"

\* C9: with both inputs non-empty, no embedded identifier in the attribute,
\* no pattern yielding a candidate and both candidates author-recognized, the
\* result is the one with a recognized work if exactly one has it, and the
\* attribute value on a tie (both have one, or neither has).
C9_AttributeWinsTies ==
    SelectDone =>
        LET nAttr == NormalizeRef(arg1)
            biblContent == NormalizeRef(arg2)
            order == ScanOrder(nAttr, biblContent)
            nWork == hasRecognizedWork(store, nAttr)
            biblWork == hasRecognizedWork(store, biblContent)
        IN  (/\ ScanReached(nAttr, biblContent)
             /\ \A i \in 1..8 : ~Qualifies(store, order[i])
             /\ hasRecognizedAuthor(store, Fields(nAttr))
             /\ hasRecognizedAuthor(store, Fields(biblContent)))
            => out = IF biblWork /\ ~nWork THEN biblContent ELSE nAttr

(***************************************************************************)
(* The Reference Parser called once on a reference                         *)
(***************************************************************************)
\* the non-empty pieces, joined by single spaces
Phrase(pieces) == Join(SelectSeq(pieces, LAMBDA x : x # ""), " ")

ParseAuthors == {"soph.", "hom.", "ap. rhod.", "shakespeare", "sen.", "zz"}

ParseWorks ==
    {"", "el.", "cymb.", "oedipus tyrannus", "Oedipus Coloneus", "de clementia",
     "nat. hist.", "o. t."}

ParsePassages ==
    {"", "1.1", "iv. 2", "151 lyr.", "xx", "12 .3.", "1", "5 ff", "vi.", "xxi 3", ".1",
     "1.2.", "o..5"}

ParseInputs ==
    {Phrase(<<a, w, p>>) : a \in ParseAuthors, w \in ParseWorks, p \in ParsePassages}

InitParse ==
    /\ store \in LoadedStores
    /\ op = "parseReference"
    /\ arg1 \in ParseInputs
    /\ arg2 = ""
    /\ pc = "ready"
    /\ out = <<>>
    /\ NewCitationProcessor

CallParse ==
    /\ op = "parseReference"
    /\ pc = "ready"
    /\ out' = parseReference(store, arg1)
    /\ pc' = "done"
    /\ UNCHANGED <<store, op, arg1, arg2>>
    /\ UNCHANGED procVars

SpecParse == InitParse /\ [][CallParse]_vars

ParseDone == op = "parseReference" /\ pc = "done"

\* a token that starts the passage: a leading digit, or a Roman numeral
\* i..xx with an optional trailing period
StartsPassage(token) ==
    \/ IsDigit(Ch(token, 1))
    \/ TrimSuffix(ToLower(token), ".") \in RomanNumerals

\* the tokens split into work and passage at the first passage token
SplitAtPassage(tokens) ==
    LET starts == {i \in 1..Len(tokens) : StartsPassage(tokens[i])}
        i == CHOOSE k \in starts : \A m \in starts : k <= m
    IN  [work |-> Join(SubSeq(tokens, 1, i - 1), " "),
         passage |-> CleanPassage(Join(SubSeq(tokens, i, Len(tokens)), " "))]

HasPassageToken(tokens) == \E i \in 1..Len(tokens) : StartsPassage(tokens[i])

\* the tokens of the reference after the author the parser took
AfterAuthor(ref, author) ==
    SubSeq(Fields(ref), Len(Fields(author)) + 1, Len(Fields(ref)))

\* C10 as stated: when the remainder after the author has a token that
\* starts with a digit or is a Roman numeral I..XX, the tokens before the
\* first such token, space-joined, are the work, and that token with all
\* following ones is the passage, whitespace turned into periods, leading and
\* trailing periods trimmed and runs of periods collapsed.
C10_ScanOnRemainder ==
    ParseDone =>
        LET tokens == AfterAuthor(arg1, out.author)
        IN  HasPassageToken(tokens) =>
                /\ out.work = SplitAtPassage(tokens).work
                /\ out.passage = SplitAtPassage(tokens).passage

\* C10 as amended: the same, for the remainder as it stands after a
\* multi-word title of the author has been underscore-joined, and provided
\* that remainder is not a single token containing a period (such a token is
\* split at its first period instead).
C10_ScanAfterSubstitution ==
    ParseDone =>
        LET tokens == Fields(processWorkTitles(store, out.author,
                                               Join(AfterAuthor(arg1, out.author), " ")))
        IN  (/\ HasPassageToken(tokens)
             /\ ~(Len(tokens) = 1 /\ Contains(tokens[1], ".")))
            => /\ out.work = SplitAtPassage(tokens).work
               /\ out.passage = SplitAtPassage(tokens).passage

C10_Witness ==
    /\ ParseDone
    /\ arg1 = "shakespeare cymb. iv. 2"
    /\ out = [author |-> "shakespeare", work |-> "cymb.", passage |-> "iv.2"]

(***************************************************************************)
(* The Identifier Resolver called on a reference, and called again on it   *)
(***************************************************************************)
URNAuthors == {"soph.", "hom.", "dem.", "hdt.", "lucr.", "shak.", "schol.", "plin.", "zz."}

URNWorks == {"", "el.", "o..", "3", "or.", "or.19", "ep.", "zz", "iv.", "iv.5", "3.5"}

URNPassages == {"", "5", "1.2", "99 ff."}

Citations ==
    {Phrase(<<a, w, p>>) : a \in URNAuthors, w \in URNWorks, p \in URNPassages}

EmbeddedCodes == {"tlg0011.tlg004", "phi0978.phi001"}

Locants == {"151", "2.3"}

LocantSeparators == {" ", ":"}

Leads == {"", "cf. "}

EmbeddedRefs ==
    {lead \o code \o sep \o loc :
        lead \in Leads, code \in EmbeddedCodes, sep \in LocantSeparators, loc \in Locants}

\* references that hold a code pair of the third code pattern
StoaRefs == {"stoa0023.stoa001", "cf. stoa0023.stoa001 2.3"}

\* the titles the range over the table of the reference's author can reach
\* before the other titles that generate the work token; "" when no title
\* generates it and the order is without effect
RangeFirsts(st, ref) ==
    With(parseReference(st, NormalizeFF(ref)), LAMBDA parsed :
    With(resolveAuthor(st, parsed.author, parsed.work), LAMBDA author :
        IF author \notin DOMAIN GetAllWorkURNs(st) THEN {""}
        ELSE With(AbbreviationTitles(GetAllWorkURNs(st)[author], ToLower(parsed.work)),
                  LAMBDA hits : IF hits # {} THEN hits ELSE {""})))

InitURN ==
    /\ store \in LoadedStores
    /\ op = "GetURN"
    /\ arg1 \in Citations \cup EmbeddedRefs \cup StoaRefs
    /\ arg2 = ""
    /\ pc = "ready"
    /\ out = <<>>
    /\ NewCitationProcessor

CallGetURN ==
    /\ op = "GetURN"
    /\ pc = "ready"
    /\ \E first \in RangeFirsts(store, arg1) : out' = GetURN(store, arg1, first)
    /\ pc' = "done"
    /\ UNCHANGED <<store, op, arg1, arg2>>
    /\ UNCHANGED procVars

\* a later call with the same reference on the same store
RepeatGetURN ==
    /\ op = "GetURN"
    /\ pc = "done"
    /\ \E first \in RangeFirsts(store, arg1) : out' = GetURN(store, arg1, first)
    /\ UNCHANGED <<store, op, arg1, arg2, pc>>
    /\ UNCHANGED procVars

NextURN == CallGetURN \/ RepeatGetURN

SpecURN == InitURN /\ [][NextURN]_vars

URNDone == op = "GetURN" /\ pc = "done"

\* C1: GetURN is deterministic: on a fixed store a later call with the same
\* reference returns the string the earlier call returned, whatever order
\* the scan of the author's titles takes.
C1_SameResultEveryCall ==
    [][(URNDone /\ pc' = "done") => out' = out]_vars

\* C2: once the author of a reference is resolved to a canonical key that has
\* an identifier stem, GetURN returns a non-empty identifier for every work
\* token, for authors of every tradition.
C2_WorkCodeNeverFails ==
    URNDone =>
        LET ref == NormalizeFF(arg1)
            parsed == parseReference(store, ref)
            author == resolveAuthor(store, parsed.author, parsed.work)
        IN  (/\ detectURN(ref) = ""
             /\ author # ""
             /\ author \in DOMAIN GetAllAuthURNs(store))
            => out # ""

Namespace(code) ==
    IF HasPrefix(code, "tlg") THEN "urn:cts:greekLit:" ELSE "urn:cts:latinLit:"

EditionSuffix(code) ==
    IF HasPrefix(code, "tlg") THEN "perseus-grc2" ELSE "perseus-lat2"

\* C3: a reference holding a tlg or phi code pair and a numeric locant, after
\* whitespace or attached with a colon, resolves to
\* namespace:code.edition-suffix:locant with code and locant unchanged.
C3_EmbeddedRoundTrip ==
    URNDone =>
        \A lead \in Leads, code \in EmbeddedCodes, sep \in LocantSeparators, loc \in Locants :
            arg1 = lead \o code \o sep \o loc
            => out = Namespace(code) \o code \o "." \o EditionSuffix(code) \o ":" \o loc

(***************************************************************************)
(* getWorkURN called on a canonical author key and a work token            *)
(***************************************************************************)
WorkAuthors ==
    {"homer", "sophocles", "demosthenes", "lysias", "herodotus", "lucretius",
     "pliny_senior", "seneca_junior", "shakespeare", "scholia", "nobody"}

WorkTokens ==
    {"", "1", "7", "12", "19", "123", "1234", "007", "01", "or.", "or.19", "or.1",
     "OR.19", "or", "el.", "o..", "zz", "iliad", "Il."}

\* the titles the range over the author's table can reach first
WorkFirsts(st, author, work) ==
    IF author \notin DOMAIN GetAllWorkURNs(st) THEN {""}
    ELSE With(AbbreviationTitles(GetAllWorkURNs(st)[author], ToLower(work)),
              LAMBDA hits : IF hits # {} THEN hits ELSE {""})

InitWork ==
    /\ store \in LoadedStores
    /\ op = "getWorkURN"
    /\ arg1 \in WorkAuthors
    /\ arg2 \in WorkTokens
    /\ pc = "ready"
    /\ out = <<>>
    /\ NewCitationProcessor

CallWork ==
    /\ op = "getWorkURN"
    /\ pc = "ready"
    /\ \E first \in WorkFirsts(store, arg1, arg2) : out' = getWorkURN(store, arg1, arg2, first)
    /\ pc' = "done"
    /\ UNCHANGED <<store, op, arg1, arg2>>
    /\ UNCHANGED procVars

SpecWork == InitWork /\ [][CallWork]_vars

WorkDone == op = "getWorkURN" /\ pc = "done"

\* the table entry an exact match of the lowercased token finds, if any
ExactEntry(st, author, work) ==
    IF author \in DOMAIN GetAllWorkURNs(st)
       /\ ToLower(work) \in DOMAIN GetAllWorkURNs(st)[author]
    THEN {GetAllWorkURNs(st)[author][ToLower(work)]}
    ELSE {}

\* no entry of the author's table matches the token, exactly or through a
\* generated abbreviation
NoEntryMatches(st, author, work) ==
    /\ ExactEntry(st, author, work) = {}
    /\ WorkFirsts(st, author, work) = {""}

TraditionPrefix(stem) ==
    IF Contains(stem, "greekLit") THEN "tlg" ELSE "phi"

RECURSIVE ZeroPadded(_, _)
\* digits, with zeros in front up to the width
ZeroPadded(digits, width) ==
    IF Len(digits) >= width THEN digits ELSE ZeroPadded("0" \o digits, width)

\* C11: for an author with a Greek or Latin stem and a purely numeric work
\* token that no table entry matches, the work code is the tradition prefix
\* followed by the number zero-padded to at least 3 digits; a number that
\* starts with 0 is used as it is.
C11_NumericCodePaddedToThree ==
    WorkDone =>
        ((/\ arg1 \in DOMAIN GetAllAuthURNs(store)
         /\ \/ Contains(GetAllAuthURNs(store)[arg1], "greekLit")
            \/ Contains(GetAllAuthURNs(store)[arg1], "latinLit")
         /\ isNumeric(arg2)
         /\ NoEntryMatches(store, arg1, arg2))
         => out = TraditionPrefix(GetAllAuthURNs(store)[arg1])
                    \o (IF HasPrefix(arg2, "0") THEN arg2 ELSE ZeroPadded(arg2, 3)))

\* the digits of the first number in a token ("" when it holds none)
FirstNumber(token) ==
    IF \A i \in 1..Len(token) : ~IsDigit(Ch(token, i)) THEN ""
    ELSE LET from == CHOOSE i \in 1..Len(token) :
                        /\ IsDigit(Ch(token, i))
                        /\ \A j \in 1..(i - 1) : ~IsDigit(Ch(token, j))
             to == CHOOSE k \in from..Len(token) :
                        /\ \A j \in from..k : IsDigit(Ch(token, j))
                        /\ k = Len(token) \/ ~IsDigit(Ch(token, k + 1))
         IN  Sub(token, from, to)

\* C12: when the lowercased work token exactly matches an entry whose
\* identifier is a Range, the work code is the prefix followed by the first
\* number of the token padded to 3 digits when that number is within the
\* bounds, and the empty result otherwise, without any later tier.
C12_RangeCodeOrFail ==
    WorkDone =>
        \A entry \in ExactEntry(store, arg1, arg2) :
            IsRange(entry) =>
                LET digits == FirstNumber(ToLower(arg2))
                IN  IF /\ digits # ""
                       /\ Atoi(digits) >= entry.start
                       /\ Atoi(digits) <= entry.end
                    THEN out = entry.prefix \o ZeroPadded(Itoa(Atoi(digits)), 3)
                    ELSE out = ""

C12_Witness ==
    /\ WorkDone
    /\ arg1 = "lysias"
    /\ arg2 = "OR.19"
    /\ out = "tlg019"

(***************************************************************************)
(* Concurrent callers of the resolver on one loaded store.  In this        *)
(* specification op, arg1, arg2, pc and out hold one value per caller.     *)
(***************************************************************************)
Callers == {1, 2}

SessionCalls ==
    {[op |-> "GetRef", arg1 |-> "hom. 1", arg2 |-> "hom. il. 1.1"],
     [op |-> "GetRef", arg1 |-> "", arg2 |-> "zz. 1.1"],
     [op |-> "parseReference", arg1 |-> "soph. el. 123", arg2 |-> ""],
     [op |-> "parseReference", arg1 |-> "hom. 1.1", arg2 |-> ""],
     [op |-> "ResolveLatinAuthorFunction", arg1 |-> "plin.", arg2 |-> "ep."],
     [op |-> "ResolveLatinAuthorFunction", arg1 |-> "sen.", arg2 |-> ""],
     [op |-> "GetURN", arg1 |-> "soph. o.. 5", arg2 |-> ""],
     [op |-> "GetURN", arg1 |-> "lys. or.19 3", arg2 |-> ""],
     [op |-> "GetURN", arg1 |-> "shak. 1.2", arg2 |-> ""]}

\* Variant of CallEffect in which getWorkURN keeps the code it found through
\* a generated abbreviation under the work token in the author's table.
CallEffectCaching(st, o, a1, a2, first) ==
    [out |-> IF o = "GetURN" THEN GetURN(st, a1, first) ELSE "",
     store |-> IF o = "GetURN" /\ first # ""
               THEN [st EXCEPT !.Greek.WorkURNs["sophocles"] =
                        ("o.." :> st.Greek.WorkURNs["sophocles"][first]) @@ @]
               ELSE st]

\* what one call returns and the store it leaves: GetRef, parseReference,
\* ResolveLatinAuthorFunction and GetURN read the tables through the
\* accessors and assign to none of them
CallEffect(st, o, a1, a2, first) ==
    [out |-> CASE o = "GetRef" -> GetRef(st, a1, a2)
               [] o = "parseReference" -> parseReference(st, a1)
               [] o = "ResolveLatinAuthorFunction" -> ResolveLatinAuthorFunction(st, a1, a2)
               [] o = "GetURN" -> GetURN(st, a1, first),
     store |-> st]

InitSession ==
    /\ store \in LoadedStores
    /\ op = [c \in Callers |-> ""]
    /\ arg1 = [c \in Callers |-> ""]
    /\ arg2 = [c \in Callers |-> ""]
    /\ pc = [c \in Callers |-> "idle"]
    /\ out = [c \in Callers |-> ""]
    /\ NewCitationProcessor

\* a caller enters one of the four operations
Invoke(c) ==
    /\ pc[c] = "idle"
    /\ \E call \in SessionCalls :
          /\ op' = [op EXCEPT ![c] = call.op]
          /\ arg1' = [arg1 EXCEPT ![c] = call.arg1]
          /\ arg2' = [arg2 EXCEPT ![c] = call.arg2]
    /\ pc' = [pc EXCEPT ![c] = "called"]
    /\ UNCHANGED <<store, out>>
    /\ UNCHANGED procVars

\* the operation runs and returns while other callers are inside theirs
Return(c) ==
    /\ pc[c] = "called"
    /\ \E first \in (IF op[c] = "GetURN" THEN RangeFirsts(store, arg1[c]) ELSE {""}) :
          \E effect \in {CallEffect(store, op[c], arg1[c], arg2[c], first)} :
              /\ out' = [out EXCEPT ![c] = effect.out]
              /\ store' = effect.store
    /\ pc' = [pc EXCEPT ![c] = "done"]
    /\ UNCHANGED <<op, arg1, arg2>>
    /\ UNCHANGED procVars

\* the caller drops the result and is free to call again
Release(c) ==
    /\ pc[c] = "done"
    /\ op' = [op EXCEPT ![c] = ""]
    /\ arg1' = [arg1 EXCEPT ![c] = ""]
    /\ arg2' = [arg2 EXCEPT ![c] = ""]
    /\ out' = [out EXCEPT ![c] = ""]
    /\ pc' = [pc EXCEPT ![c] = "idle"]
    /\ UNCHANGED store
    /\ UNCHANGED procVars

NextSession == \E c \in Callers : Invoke(c) \/ Return(c) \/ Release(c)

SpecSession == InitSession /\ [][NextSession]_vars

MaxCalls == 4

TagFunctions == {"ProcessCitation", "processCitationTag", "createCitationFromParts"}

\* fmt.Sprintf(":citations-%d.%d", 1, cp.Counter)
CitURN(n) == ":citations-1." \o Itoa(n)

CallsStarted == Len(out) + Cardinality({c \in Callers : pc[c] # "idle"})

InitTag ==
    /\ store \in LoadedStores
    /\ op = [c \in Callers |-> ""]
    /\ arg1 = [c \in Callers |-> 0]
    /\ arg2 = [c \in Callers |-> ""]
    /\ pc = [c \in Callers |-> "idle"]
    /\ out = <<>>
    /\ NewCitationProcessor

Enter(c) ==
    /\ pc[c] = "idle"
    /\ CallsStarted < MaxCalls
    /\ \E f \in TagFunctions : op' = [op EXCEPT ![c] = f]
    /\ pc' = [pc EXCEPT ![c] = "lock"]
    /\ UNCHANGED <<store, arg1, arg2, out>>
    /\ UNCHANGED procVars

\* Variant of Lock that does not wait for the mutex.
LockNoWait(c) ==
    /\ pc[c] = "lock"
    /\ CounterMux' = "locked"
    /\ pc' = [pc EXCEPT ![c] = "load"]
    /\ UNCHANGED <<store, op, arg1, arg2, out, Counter, resolved, unresolved>>

\* cp.CounterMux.Lock()
Lock(c) ==
    /\ pc[c] = "lock"
    /\ CounterMux = "free"
    /\ CounterMux' = "locked"
    /\ pc' = [pc EXCEPT ![c] = "load"]
    /\ UNCHANGED <<store, op, arg1, arg2, out, Counter, resolved, unresolved>>

\* cp.Counter++ reads the counter ...
Load(c) ==
    /\ pc[c] = "load"
    /\ arg1' = [arg1 EXCEPT ![c] = Counter]
    /\ pc' = [pc EXCEPT ![c] = "store"]
    /\ UNCHANGED <<store, op, arg2, out>>
    /\ UNCHANGED procVars

\* ... and writes it back incremented
Store(c) ==
    /\ pc[c] = "store"
    /\ Counter' = arg1[c] + 1
    /\ pc' = [pc EXCEPT ![c] = "format"]
    /\ UNCHANGED <<store, op, arg1, arg2, out, CounterMux, resolved, unresolved>>

\* citURN := fmt.Sprintf(":citations-%d.%d", 1, cp.Counter)
Format(c) ==
    /\ pc[c] = "format"
    /\ arg2' = [arg2 EXCEPT ![c] = CitURN(Counter)]
    /\ pc' = [pc EXCEPT ![c] = "unlock"]
    /\ UNCHANGED <<store, op, arg1, out>>
    /\ UNCHANGED procVars

\* cp.CounterMux.Unlock()
Unlock(c) ==
    /\ pc[c] = "unlock"
    /\ CounterMux' = "free"
    /\ pc' = [pc EXCEPT ![c] = "rest"]
    /\ UNCHANGED <<store, op, arg1, arg2, out, Counter, resolved, unresolved>>

\* the rest of the function: the citation is returned with DocCitURN set to
\* citURN; processCitationTag returns Citation{} when the <cit> element holds
\* no <bibl> element
ReturnCitation(c) ==
    /\ pc[c] = "rest"
    /\ \E biblFound \in (IF op[c] = "processCitationTag" THEN BOOLEAN ELSE {TRUE}) :
          out' = Append(out, [fn |-> op[c],
                              DocCitURN |-> IF biblFound THEN arg2[c] ELSE ""])
    /\ pc' = [pc EXCEPT ![c] = "idle"]
    /\ op' = [op EXCEPT ![c] = ""]
    /\ arg1' = [arg1 EXCEPT ![c] = 0]
    /\ arg2' = [arg2 EXCEPT ![c] = ""]
    /\ UNCHANGED store
    /\ UNCHANGED procVars

NextTag ==
    \E c \in Callers :
        \/ Enter(c) \/ Lock(c) \/ Load(c) \/ Store(c)
        \/ Format(c) \/ Unlock(c) \/ ReturnCitation(c)

SpecTag == InitTag /\ [][NextTag]_vars

\* C14: under any interleaving of concurrent ProcessCitation,
\* processCitationTag and createCitationFromParts calls no two citations
\* receive the same doc_cit_urn tag, and once k calls have run and none is
\* in progress the counter equals k.
C14_TagsUniqueNoLostUpdate ==
    /\ \A i, j \in 1..Len(out) :
          (i # j /\ out[i].DocCitURN # "") => out[i].DocCitURN # out[j].DocCitURN
    /\ (\A c \in Callers : pc[c] = "idle") => Counter = Len(out)

C14_Witness ==
    /\ Len(out) = MaxCalls
    /\ Counter = MaxCalls
    /\ \E i, j \in 1..Len(out) :
          /\ out[i].fn = "ProcessCitation"
          /\ out[j].fn = "createCitationFromParts"
          /\ out[i].DocCitURN = CitURN(2)
          /\ out[j].DocCitURN = CitURN(1)

(***************************************************************************)
(* WriteCitations (main.go).  A file is the sequence of its lines.         *)
(***************************************************************************)
Citation(nAttr, bibl, ref, urn, quote, context, filename, citURN) ==
    [NAttrib |-> nAttr, Bibl |-> bibl, Ref |-> ref, URN |-> urn, Quote |-> quote,
     XMLContext |-> context, Filename |-> filename, DocCitURN |-> citURN]

\* encoding/json escaping of one character, HTML-safe as json.Marshal
\* applies it
EscapeChar(c) ==
    CASE c = "\"" -> "\\\""
      [] c = "\\" -> "\\\\"
      [] c = "<" -> "\\u003c"
      [] c = ">" -> "\\u003e"
      [] c = "&" -> "\\u0026"
      [] c = "\n" -> "\\n"
      [] c = "\t" -> "\\t"
      [] OTHER -> c

RECURSIVE EscapeRange(_, _, _)
\* positions lo..hi of s escaped; halved so that long texts stay shallow
EscapeRange(s, lo, hi) ==
    IF lo > hi THEN ""
    ELSE IF lo = hi THEN EscapeChar(Ch(s, lo))
    ELSE EscapeRange(s, lo, (lo + hi) \div 2)
             \o EscapeRange(s, ((lo + hi) \div 2) + 1, hi)

EscapeJSON(s) == EscapeRange(s, 1, Len(s))

JSONField(name, value) == "\"" \o name \o "\":\"" \o EscapeJSON(value) \o "\""

\* json.Marshal(citation): the fields in struct order under their json tags
Marshal(c) ==
    "{" \o JSONField("n_attrib", c.NAttrib) \o "," \o JSONField("bibl", c.Bibl)
        \o "," \o JSONField("ref", c.Ref) \o "," \o JSONField("urn", c.URN)
        \o "," \o JSONField("quote", c.Quote)
        \o "," \o JSONField("xml_context", c.XMLContext)
        \o "," \o JSONField("filename", c.Filename)
        \o "," \o JSONField("doc_cit_urn", c.DocCitURN) \o "}"

RECURSIVE WriteLoop(_, _)
\* the loop of WriteCitations over the citations, files being both files
WriteLoop(files, citations) ==
    IF Len(citations) = 0 THEN files
    ELSE With(Head(citations), LAMBDA citation :
             WriteLoop(IF citation.URN # "" /\ citation.Ref # ""
                       THEN [files EXCEPT !.resolved = Append(@, Marshal(citation))]
                       ELSE [files EXCEPT !.unresolved = Append(@, Marshal(citation))],
                       Tail(citations)))

RECURSIVE WriteLoopByURN(_, _)
WriteLoopByURN(files, citations) ==
    IF Len(citations) = 0 THEN files
    ELSE With(Head(citations), LAMBDA citation :
             WriteLoopByURN(IF citation.URN # ""
                            THEN [files EXCEPT !.resolved = Append(@, Marshal(citation))]
                            ELSE [files EXCEPT !.unresolved = Append(@, Marshal(citation))],
                            Tail(citations)))

\* Variant of WriteCitations that files a citation by its URN alone.
WriteCitationsByURNOnly(files, citations, opens) ==
    IF ~opens.resolved \/ ~opens.unresolved
    THEN [resolved |-> files.resolved, unresolved |-> files.unresolved, err |-> "error"]
    ELSE With(WriteLoopByURN(files, citations), LAMBDA written :
             [resolved |-> written.resolved, unresolved |-> written.unresolved,
              err |-> "nil"])

\* opens: whether os.OpenFile succeeds on each path.  The files after the
\* call and the error returned.
WriteCitations(files, citations, opens) ==
    IF ~opens.resolved
    THEN [resolved |-> files.resolved, unresolved |-> files.unresolved, err |-> "error"]
    ELSE IF ~opens.unresolved
    THEN [resolved |-> files.resolved, unresolved |-> files.unresolved, err |-> "error"]
    ELSE With(WriteLoop(files, citations), LAMBDA written :
             [resolved |-> written.resolved, unresolved |-> written.unresolved,
              err |-> "nil"])

MaxBatch == 3

WriteSamples ==
    {Citation("Soph. El. 123", "El. 123", "soph. el. 123",
              "urn:cts:greekLit:tlg0011.tlg005.perseus-grc2:123", "", "<bibl>", "a.xml",
              ":citations-1.1"),
     Citation("", "zz. 1.1", "zz. 1.1", "", "q \"r\"", "", "a.xml", ":citations-1.2"),
     Citation("", "Hom. Il. 1.1", "hom. il. 1.1",
              "urn:cts:greekLit:tlg0012.tlg001.perseus-grc2:1.1", "", "", "a.xml",
              ":citations-1.5"),
     Citation("soph. zz", "hom. qq", "", "", "", "", "a.xml", ":citations-1.3"),
     Citation("", "", "", "urn:cts:greekLit:tlg0012.tlg001.perseus-grc2", "", "", "b.xml",
              ":citations-1.4")}

WriteBatches ==
    UNION {[1..n -> WriteSamples] : n \in 0..MaxBatch}

\* a record written by an earlier call
EarlierLine == Marshal(Citation("", "hdt. 1.32", "hdt. 1.32", "", "", "", "0.xml", ":citations-1.9"))

InitWrite ==
    /\ store \in LoadedStores
    /\ op = "WriteCitations"
    /\ arg1 \in WriteBatches
    /\ arg2 \in [resolved : BOOLEAN, unresolved : BOOLEAN]
    /\ pc = "ready"
    /\ out = <<>>
    /\ Counter = 0
    /\ CounterMux = "free"
    /\ resolved \in {<<>>, <<EarlierLine>>}
    /\ unresolved \in {<<>>, <<EarlierLine>>}

CallWrite ==
    /\ op = "WriteCitations"
    /\ pc = "ready"
    /\ \E after \in {WriteCitations([resolved |-> resolved, unresolved |-> unresolved],
                                      arg1, arg2)} :
           /\ resolved' = after.resolved
           /\ unresolved' = after.unresolved
           /\ out' = after.err
    /\ pc' = "done"
    /\ UNCHANGED <<store, op, arg1, arg2, Counter, CounterMux>>

SpecWrite == InitWrite /\ [][CallWrite]_vars

WriteStep == op = "WriteCitations" /\ pc = "ready" /\ pc' = "done"

IsResolved(c) == c.URN # "" /\ c.Ref # ""

IsUnresolved(c) == ~IsResolved(c)

LinesOf(citations, keep(_)) ==
    [i \in 1..Len(SelectSeq(citations, keep)) |-> Marshal(SelectSeq(citations, keep)[i])]

\* the claim's routing: each file grows by the records of its citations, in
\* input order, behind what it held
RoutedInOrder ==
    /\ resolved' = resolved \o LinesOf(arg1, IsResolved)
    /\ unresolved' = unresolved \o LinesOf(arg1, IsUnresolved)

IndexFrom(s, sub, from) ==
    Bind({i \in (IF from < 1 THEN 1 ELSE from)..(Len(s) - Len(sub) + 1) :
              Sub(s, i, i + Len(sub) - 1) = sub},
         LAMBDA hits : IF hits = {} THEN 0
                       ELSE CHOOSE i \in hits : \A j \in hits : i <= j)

IsWordChar(c) == IsAlpha(c) \/ IsDigit(c) \/ c = "_"

\* `<tag[^>]*>.*?</tag>` tried at position i (with \b after the tag name when
\* boundary, with (?s) when dotAll): span of the match, or start 0.  gt is
\* the end of the opening tag, body the text between the tags.
ElementAt(s, i, tag, boundary, dotAll) ==
    Bind(IndexFrom(s, ">", i + 1 + Len(tag)), LAMBDA gt :
    Bind(IF gt = 0 THEN 0 ELSE IndexFrom(s, "</" \o tag \o ">", gt + 1), LAMBDA cl :
        IF /\ Sub(s, i, i + Len(tag)) = "<" \o tag
           /\ boundary => ~IsWordChar(Ch(s, i + 1 + Len(tag)))
           /\ gt # 0
           /\ cl # 0
           /\ dotAll \/ ~Contains(Sub(s, gt + 1, cl - 1), "\n")
        THEN [start |-> i, end |-> cl + Len(tag) + 2, gt |-> gt,
              body |-> Sub(s, gt + 1, cl - 1)]
        ELSE [start |-> 0, end |-> 0, gt |-> 0, body |-> ""]))

\* the leftmost match at or after from
FindElement(s, from, tag, boundary, dotAll) ==
    Bind({i \in (IF from < 1 THEN 1 ELSE from)..Len(s) :
              /\ Sub(s, i, i + Len(tag)) = "<" \o tag
              /\ ElementAt(s, i, tag, boundary, dotAll).start # 0},
         LAMBDA starts :
             IF starts = {} THEN [start |-> 0, end |-> 0, gt |-> 0, body |-> ""]
             ELSE ElementAt(s, CHOOSE i \in starts : \A j \in starts : i <= j,
                            tag, boundary, dotAll))

RECURSIVE FindAllElements(_, _, _, _, _)
\* FindAllString: the successive non-overlapping matches
FindAllElements(s, from, tag, boundary, dotAll) ==
    Bind(FindElement(s, from, tag, boundary, dotAll), LAMBDA m :
        IF m.start = 0 THEN <<>>
        ELSE <<Sub(s, m.start, m.end)>>
                 \o FindAllElements(s, m.end + 1, tag, boundary, dotAll))

RECURSIVE RemoveAllElements(_, _, _, _, _)
\* ReplaceAllString(s, ""), reading s from position from on
RemoveAllElements(s, from, tag, boundary, dotAll) ==
    Bind(FindElement(s, from, tag, boundary, dotAll), LAMBDA m :
        IF m.start = 0 THEN Sub(s, from, Len(s))
        ELSE Sub(s, from, m.start - 1)
                 \o RemoveAllElements(s, m.end + 1, tag, boundary, dotAll))

\* extractAttribute(element, "n"): `n="([^"]*)"`
extractAttribute(element) ==
    Bind(IndexFrom(element, "n=\"", 1), LAMBDA at :
    Bind(IF at = 0 THEN 0 ELSE IndexFrom(element, "\"", at + 3), LAMBDA close :
        IF close = 0 THEN "" ELSE Sub(element, at + 3, close - 1)))

\* extractBiblContent: `<bibl[^>]*>(.*?)</bibl>`
extractBiblContent(biblElement) ==
    Bind(FindElement(biblElement, 1, "bibl", FALSE, FALSE).body, LAMBDA content :
        TrimSpace(content))

\* extractQuote: `<quote[^>]*>(.*?)</quote>` in the 200 characters after the
\* first occurrence of biblMatch
extractQuote(xmlContent, biblMatch) ==
    Bind(Index(xmlContent, biblMatch), LAMBDA index :
        IF index = 0 THEN ""
        ELSE Bind(Sub(xmlContent, index + Len(biblMatch), index + Len(biblMatch) + 199),
                  LAMBDA afterBibl :
             Bind(FindElement(afterBibl, 1, "quote", FALSE, FALSE).body, LAMBDA quote :
                 TrimSpace(quote))))

extractContext(xmlContent, biblMatch, contextSize) ==
    Bind(Index(xmlContent, biblMatch), LAMBDA index :
        IF index = 0 THEN ""
        ELSE Bind(Sub(xmlContent, index - contextSize,
                      index + Len(biblMatch) + contextSize - 1),
                  LAMBDA context :
             Bind(CollapseSpace(context, " "), LAMBDA collapsed : TrimSpace(collapsed))))

\* the first position from on that holds no whitespace (Len(s) + 1 at the end)
SkipSpace(s, from) ==
    Bind({i \in from..Len(s) : ~IsSpace(Ch(s, i))}, LAMBDA rest :
        IF rest = {} THEN Len(s) + 1 ELSE CHOOSE i \in rest : \A j \in rest : i <= j)

\* `<tag[^>]*>([^<]+)</tag>` tried at position i (with \b after the tag name
\* when boundary): the text between the tags is not empty and holds no "<"
LeafAt(s, i, tag, boundary) ==
    Bind(IndexFrom(s, ">", i + 1 + Len(tag)), LAMBDA gt :
    Bind(IF gt = 0 THEN 0 ELSE IndexFrom(s, "<", gt + 1), LAMBDA lt :
        IF /\ Sub(s, i, i + Len(tag)) = "<" \o tag
           /\ boundary => ~IsWordChar(Ch(s, i + 1 + Len(tag)))
           /\ gt # 0
           /\ lt > gt + 1
           /\ Sub(s, lt, lt + Len(tag) + 2) = "</" \o tag \o ">"
        THEN [start |-> i, end |-> lt + Len(tag) + 2, gt |-> gt,
              body |-> Sub(s, gt + 1, lt - 1)]
        ELSE [start |-> 0, end |-> 0, gt |-> 0, body |-> ""]))

FindLeaf(s, from, tag, boundary) ==
    Bind({i \in (IF from < 1 THEN 1 ELSE from)..Len(s) :
              /\ Sub(s, i, i + Len(tag)) = "<" \o tag
              /\ LeafAt(s, i, tag, boundary).start # 0},
         LAMBDA starts :
             IF starts = {} THEN [start |-> 0, end |-> 0, gt |-> 0, body |-> ""]
             ELSE LeafAt(s, CHOOSE i \in starts : \A j \in starts : i <= j, tag, boundary))

\* `\bn\s*=\s*"([^"]+)"[^>]*>([^<]*)</bibl>` tried at position p: the
\* attribute value, the text and the end of the element, or end 0
NAttributeAt(s, p) ==
    Bind(SkipSpace(s, p + 1), LAMBDA eq :
    Bind(SkipSpace(s, eq + 1), LAMBDA open :
    Bind(IndexFrom(s, "\"", open + 1), LAMBDA close :
    Bind(IF close = 0 THEN 0 ELSE IndexFrom(s, ">", close + 1), LAMBDA gt :
    Bind(IF gt = 0 THEN 0 ELSE IndexFrom(s, "<", gt + 1), LAMBDA lt :
        IF /\ Ch(s, p) = "n"
           /\ ~IsWordChar(Ch(s, p - 1))
           /\ Ch(s, eq) = "="
           /\ Ch(s, open) = "\""
           /\ close > open + 1
           /\ gt # 0
           /\ lt # 0
           /\ Sub(s, lt, lt + 6) = "</bibl>"
        THEN [end |-> lt + 6, n |-> Sub(s, open + 1, close - 1),
              body |-> Sub(s, gt + 1, lt - 1)]
        ELSE [end |-> 0, n |-> "", body |-> ""])))))

\* `<bibl\b[^>]*\bn\s*=\s*"([^"]+)"[^>]*>([^<]*)</bibl>` tried at position
\* i; the first [^>]* is greedy, so the last n attribute that lets the rest
\* match is taken
BiblWithNAt(s, i) ==
    Bind(IndexFrom(s, ">", i + 5), LAMBDA gt :
    Bind({p \in (i + 5)..(gt - 1) : NAttributeAt(s, p).end # 0}, LAMBDA ps :
        IF /\ Sub(s, i, i + 4) = "<bibl"
           /\ ~IsWordChar(Ch(s, i + 5))
           /\ ps # {}
        THEN Bind(NAttributeAt(s, CHOOSE p \in ps : \A q \in ps : q <= p), LAMBDA m :
                 [start |-> i, end |-> m.end, n |-> m.n, body |-> m.body])
        ELSE [start |-> 0, end |-> 0, n |-> "", body |-> ""]))

RECURSIVE FindAllBiblWithN(_, _)
\* FindAllStringSubmatch of the pattern above: whole match, n, text
FindAllBiblWithN(s, from) ==
    Bind({i \in from..Len(s) :
              /\ Sub(s, i, i + 4) = "<bibl"
              /\ BiblWithNAt(s, i).start # 0},
         LAMBDA starts :
             IF starts = {} THEN <<>>
             ELSE Bind(BiblWithNAt(s, CHOOSE i \in starts : \A j \in starts : i <= j),
                       LAMBDA m :
                           <<[match |-> Sub(s, m.start, m.end), n |-> m.n, body |-> m.body]>>
                               \o FindAllBiblWithN(s, m.end + 1)))

RECURSIVE FindAllRefs(_, _)
\* FindAllStringSubmatch of `<ref\b[^>]*>([^<]+)</ref>`: the texts
FindAllRefs(s, from) ==
    Bind(FindLeaf(s, from, "ref", TRUE), LAMBDA m :
        IF m.start = 0 THEN <<>>
        ELSE <<m.body>> \o FindAllRefs(s, m.end + 1))

\* the first position from on that holds no letter
SkipAlpha(s, from) ==
    Bind({i \in from..Len(s) : ~IsAlpha(Ch(s, i))}, LAMBDA rest :
        IF rest = {} THEN Len(s) + 1 ELSE CHOOSE i \in rest : \A j \in rest : i <= j)

\* `[A-Za-z]+\.\s*[A-Za-z]*\s*\d+` found somewhere in text
LooksLikeCitation(text) ==
    \E dot \in 2..Len(text) :
        /\ Ch(text, dot) = "."
        /\ IsAlpha(Ch(text, dot - 1))
        /\ IsDigit(Ch(text, SkipSpace(text, SkipAlpha(text, SkipSpace(text, dot + 1)))))

\* What the three functions that build a Citation take from the text before
\* they call the resolver: the n attribute, the bibl text, the quote and the
\* context.  kind is "none" for a <cit> without <bibl>; rule is the condition
\* under which the calling loop appends the citation.
Parts(kind, nAttr, biblContent, quote, context, rule) ==
    [kind |-> kind, nAttr |-> nAttr, biblContent |-> biblContent, quote |-> quote,
     context |-> context, rule |-> rule]

\* ProcessCitation up to the call of GetRef
ProcessCitationParts(biblMatch, xmlContent, rule) ==
    Parts("bibl", extractAttribute(biblMatch), extractBiblContent(biblMatch),
          extractQuote(xmlContent, biblMatch), extractContext(xmlContent, biblMatch, 500),
          rule)

\* processCitationTag up to the call of GetRef
processCitationTagParts(citMatch, xmlContent) ==
    Bind(FindElement(citMatch, 1, "bibl", FALSE, FALSE), LAMBDA bibl :
        IF bibl.start = 0 THEN Parts("none", "", "", "", "", "bibl")
        ELSE Bind(Sub(citMatch, bibl.start, bibl.end), LAMBDA biblMatch :
             Bind(FindElement(citMatch, 1, "quote", FALSE, TRUE).body, LAMBDA quote :
                 Parts("bibl", extractAttribute(biblMatch), extractBiblContent(biblMatch),
                       TrimSpace(quote), extractContext(xmlContent, citMatch, 500),
                       "bibl"))))

\* createCitationFromParts up to the call of GetRef; the source passes
\* biblContent and xmlContent to extractContext in this order
createCitationFromPartsParts(nAttr, biblContent, quote, xmlContent, rule) ==
    Parts("bibl", nAttr, biblContent, quote, extractContext(biblContent, xmlContent, 200),
          rule)

\* the rest of the three functions: GetRef, GetURN when the reference is not
\* empty, and the Citation returned; counter is cp.Counter as incremented for
\* this call.  A <cit> without <bibl> gives the zero Citation.
BuildCitation(st, parts, filename, counter) ==
    IF parts.kind = "none" THEN Citation("", "", "", "", "", "", "", "")
    ELSE Bind(GetRef(st, parts.nAttr, parts.biblContent), LAMBDA ref :
             Citation(parts.nAttr, parts.biblContent, ref,
                      IF ref # "" THEN GetURN(st, ref, "") ELSE "",
                      parts.quote, parts.context, filename, CitURN(counter)))

ProcessCitation(st, biblMatch, xmlContent, filename, counter) ==
    Bind(ProcessCitationParts(biblMatch, xmlContent, "all"), LAMBDA parts :
        BuildCitation(st, parts, filename, counter))

processCitationTag(st, citMatch, xmlContent, filename, counter) ==
    Bind(processCitationTagParts(citMatch, xmlContent), LAMBDA parts :
        BuildCitation(st, parts, filename, counter))

createCitationFromParts(st, nAttr, biblContent, quote, xmlContent, filename, counter) ==
    Bind(createCitationFromPartsParts(nAttr, biblContent, quote, xmlContent, "bibl"),
         LAMBDA parts : BuildCitation(st, parts, filename, counter))

\* the key of citationMap
CitationKey(citation) ==
    citation.Bibl \o "|" \o citation.NAttrib \o "|" \o citation.Quote

\* the list so far, the keys of citationMap, cp.Counter, and every Citation
\* built so far
NoCitations(counter) ==
    [citations |-> <<>>, keys |-> {}, counter |-> counter, candidates |-> <<>>]

\* the loop of extractBiblTags: every citation is appended
AppendCitation(acc, citation) ==
    [citations |-> Append(acc.citations, citation), keys |-> acc.keys,
     counter |-> acc.counter + 1, candidates |-> Append(acc.candidates, citation)]

\* a pattern loop that appends without consulting citationMap
AddCitationNoMap(acc, citation, wanted) ==
    [citations |-> IF wanted THEN Append(acc.citations, citation) ELSE acc.citations,
     keys |-> IF wanted THEN acc.keys \cup {CitationKey(citation)} ELSE acc.keys,
     counter |-> acc.counter + 1,
     candidates |-> Append(acc.candidates, citation)]

\* the end of each pattern loop of extractAllCitationPatterns: the citation
\* built under the next counter value is appended when it is wanted and its
\* key is new
AddCitation(acc, citation, wanted) ==
    Bind(wanted /\ CitationKey(citation) \notin acc.keys, LAMBDA new :
        [citations |-> IF new THEN Append(acc.citations, citation) ELSE acc.citations,
         keys |-> IF new THEN acc.keys \cup {CitationKey(citation)} ELSE acc.keys,
         counter |-> acc.counter + 1,
         candidates |-> Append(acc.candidates, citation)])

\* the condition of a pattern loop: Patterns 1 to 3 want a bibl text,
\* Pattern 4 a URN as well
Wanted(rule, citation) ==
    IF rule = "urn" THEN citation.Bibl # "" /\ citation.URN # "" ELSE citation.Bibl # ""

RECURSIVE BuildEach(_, _, _, _)
\* the loops over the matches, in the order the functions run them: the
\* citation of each match is built and appended under the rule of its loop.
\* The source matches a pattern and builds its citations before it matches
\* the next pattern; matching reads xmlContent only, so the citations and
\* the counter values are the same.
BuildEach(st, matches, filename, acc) ==
    IF Len(matches) = 0 THEN acc
    ELSE Bind(Head(matches), LAMBDA parts :
         Bind(BuildCitation(st, parts, filename, acc.counter + 1), LAMBDA citation :
         Bind(IF parts.rule = "all" THEN AppendCitation(acc, citation)
              ELSE AddCitation(acc, citation, Wanted(parts.rule, citation)),
              LAMBDA next : BuildEach(st, Tail(matches), filename, next))))

RECURSIVE BiblTagParts(_, _, _)
\* the matches of extractBiblTags (rule "all") or of Pattern 2 (rule "bibl")
BiblTagParts(biblMatches, xmlContent, rule) ==
    IF Len(biblMatches) = 0 THEN <<>>
    ELSE Bind(Head(biblMatches), LAMBDA biblMatch :
             <<ProcessCitationParts(biblMatch, xmlContent, rule)>>
                 \o BiblTagParts(Tail(biblMatches), xmlContent, rule))

RECURSIVE CitPattern(_, _)
\* Pattern 1: every <cit> element
CitPattern(citMatches, xmlContent) ==
    IF Len(citMatches) = 0 THEN <<>>
    ELSE Bind(Head(citMatches), LAMBDA citMatch :
             <<processCitationTagParts(citMatch, xmlContent)>>
                 \o CitPattern(Tail(citMatches), xmlContent))

\* Pattern 2: every <bibl> element left once the <cit> elements are removed
StandalonePattern(xmlContent) ==
    Bind(RemoveAllElements(xmlContent, 1, "cit", TRUE, TRUE), LAMBDA contentWithoutCit :
    Bind(FindAllElements(contentWithoutCit, 1, "bibl", TRUE, FALSE), LAMBDA biblMatches :
        BiblTagParts(biblMatches, xmlContent, "bibl")))

\* the first `<quote[^>]*>([^<]+)</quote>` within 250 characters of the first
\* occurrence of match
NearbyQuote(xmlContent, match) ==
    Bind(Index(xmlContent, match), LAMBDA biblIndex :
    Bind(Sub(xmlContent, biblIndex - 250, biblIndex + Len(match) + 249), LAMBDA context :
    Bind(FindLeaf(context, 1, "quote", FALSE).body, LAMBDA quote :
        TrimSpace(quote))))

RECURSIVE BiblWithNPattern(_, _)
\* Pattern 3: <bibl> elements with an n attribute and plain text
BiblWithNPattern(matches, xmlContent) ==
    IF Len(matches) = 0 THEN <<>>
    ELSE Bind(Head(matches), LAMBDA match :
         Bind(TrimSpace(match.body), LAMBDA biblContent :
         Bind(NearbyQuote(xmlContent, match.match), LAMBDA quote :
             <<createCitationFromPartsParts(match.n, biblContent, quote, xmlContent, "bibl")>>
                 \o BiblWithNPattern(Tail(matches), xmlContent))))

RECURSIVE RefPattern(_, _)
\* Pattern 4: <ref> elements whose text looks like a citation
RefPattern(refMatches, xmlContent) ==
    IF Len(refMatches) = 0 THEN <<>>
    ELSE Bind(Head(refMatches), LAMBDA refMatch :
         Bind(TrimSpace(refMatch), LAMBDA refContent :
             (IF refContent # "" /\ LooksLikeCitation(refContent)
              THEN <<createCitationFromPartsParts("", refContent, "", xmlContent, "urn")>>
              ELSE <<>>)
                 \o RefPattern(Tail(refMatches), xmlContent)))

\* the matches of the four patterns of extractAllCitationPatterns, in order
AllPatterns(xmlContent) ==
    Bind(FindAllElements(xmlContent, 1, "cit", TRUE, TRUE), LAMBDA citMatches :
    Bind(FindAllBiblWithN(xmlContent, 1), LAMBDA biblWithNMatches :
    Bind(FindAllRefs(xmlContent, 1), LAMBDA refMatches :
        CitPattern(citMatches, xmlContent) \o StandalonePattern(xmlContent)
            \o BiblWithNPattern(biblWithNMatches, xmlContent)
            \o RefPattern(refMatches, xmlContent))))

\* extractAllCitationPatterns, counter being cp.Counter at the call
extractAllCitationPatterns(st, xmlContent, filename, counter) ==
    Bind(AllPatterns(xmlContent), LAMBDA matches :
        BuildEach(st, matches, filename, NoCitations(counter)))

\* extractBiblTags: `<bibl[^>]*>.*?</bibl>`, one ProcessCitation per match
extractBiblTags(st, xmlContent, filename, counter) ==
    Bind(FindAllElements(xmlContent, 1, "bibl", FALSE, FALSE), LAMBDA biblMatches :
    Bind(BiblTagParts(biblMatches, xmlContent, "all"), LAMBDA matches :
        BuildEach(st, matches, filename, NoCitations(counter)).citations))

\* ExtractCitations: the citations of one document and cp.Counter afterwards
ExtractCitations(st, xmlContent, filename, counter, useCitTags) ==
    Bind(FindAllElements(xmlContent, 1, "bibl", FALSE, FALSE), LAMBDA biblMatches :
    Bind(IF useCitTags THEN AllPatterns(xmlContent)
         ELSE BiblTagParts(biblMatches, xmlContent, "all"),
         LAMBDA matches :
    Bind(BuildEach(st, matches, filename, NoCitations(counter)), LAMBDA all :
        [citations |-> all.citations, counter |-> all.counter])))

(***************************************************************************)
(* extractAllCitationPatterns applied to one document                      *)
(***************************************************************************)

\* elements a document is put together from: a <cit> with quote and bibl,
\* bibl elements with and without n, ref elements that resolve and that do
\* not, a quote on its own, a <cit> without bibl, and two bibl elements whose
\* citationMap keys coincide although their texts and n attributes differ
Pieces ==
    {"<cit><quote>q</quote><bibl n=\"Hom. Il. 1.1\">Il. 1.1</bibl></cit>",
     "<bibl n=\"Soph. El. 123\">El. 123</bibl>",
     "<bibl>Soph. El. 123</bibl>",
     "<ref>Soph. El. 123</ref>",
     "<ref>zz. 1</ref>",
     "<quote>q</quote>",
     "<cit><quote>r</quote></cit>",
     "<bibl n=\"z\">x|y</bibl>",
     "<bibl n=\"y|z\">x</bibl>"}

Documents ==
    {"<p>" \o a \o "</p>" : a \in Pieces}
        \cup {"<p>" \o a \o " " \o b \o "</p>" : a \in Pieces, b \in Pieces}

InitExtract ==
    /\ store \in LoadedStores
    /\ op = "extractAllCitationPatterns"
    /\ arg1 \in Documents
    /\ arg2 = "a.xml"
    /\ pc = "ready"
    /\ out = <<>>
    /\ NewCitationProcessor

CallExtract ==
    /\ op = "extractAllCitationPatterns"
    /\ pc = "ready"
    /\ \E all \in {extractAllCitationPatterns(store, arg1, arg2, Counter)} :
           /\ out' = [citations |-> all.citations, candidates |-> all.candidates]
           /\ Counter' = all.counter
    /\ pc' = "done"
    /\ UNCHANGED <<store, op, arg1, arg2, CounterMux, resolved, unresolved>>

SpecExtract == InitExtract /\ [][CallExtract]_vars

ExtractDone == op = "extractAllCitationPatterns" /\ pc = "done"

Triple(citation) == <<citation.Bibl, citation.NAttrib, citation.Quote>>

\* C20: the citations returned for one document in cit-tag mode hold no two
\* citations with the same (bibl text, n attribute, quote) triple, and each
\* of them is the first citation with its triple that the four patterns
\* built, in the order the patterns built them
C20_NoDuplicateTriples ==
    ExtractDone =>
        LET cs == out.citations
            built == out.candidates
        IN  /\ \A i, j \in 1..Len(cs) : i # j => Triple(cs[i]) # Triple(cs[j])
            /\ \A i \in 1..Len(cs) :
                   \E k \in 1..Len(built) :
                       /\ built[k] = cs[i]
                       /\ \A m \in 1..(k - 1) : Triple(built[m]) # Triple(cs[i])
            /\ \A i, j \in 1..Len(cs) :
                   i < j =>
                       \E k, m \in 1..Len(built) :
                           k < m /\ built[k] = cs[i] /\ built[m] = cs[j]

\* a document in which two patterns built citations with the same triple and
\* the citation the later pattern built was left out
C20_Witness ==
    /\ ExtractDone
    /\ \E k, m \in 1..Len(out.candidates) :
           /\ k < m
           /\ Triple(out.candidates[k]) = Triple(out.candidates[m])
           /\ out.candidates[k].URN # ""
           /\ out.candidates[m].URN # ""
           /\ out.candidates[k].DocCitURN # out.candidates[m].DocCitURN
           /\ \E i \in 1..Len(out.citations) : out.citations[i] = out.candidates[k]
           /\ \A i \in 1..Len(out.citations) : out.citations[i] # out.candidates[m]

(***************************************************************************)
(* ProcessAllXMLFiles: the loop over the files of the input directory.     *)
(* Init is the state in which the loop starts: the output directory        *)
(* exists, both output files have been removed, the files are listed.      *)
(***************************************************************************)

MaxFiles == 2

Element(n, bibl) == [n |-> n, bibl |-> bibl]

\* <bibl n="...">...</bibl>, without the attribute when n is empty
RenderElement(e) ==
    "<bibl" \o (IF e.n = "" THEN "" ELSE " n=\"" \o e.n \o "\"") \o ">"
        \o e.bibl \o "</bibl>"

RECURSIVE RenderElements(_)
RenderElements(elements) ==
    IF Len(elements) = 0 THEN ""
    ELSE RenderElement(Head(elements)) \o "\n" \o RenderElements(Tail(elements))

\* a file of the input directory: its bibl elements, whether os.ReadFile
\* succeeds on it, and whether the output files can be opened while it is
\* being written
XMLFile(elements, readable, opens) ==
    [elements |-> elements, content |-> "<text>\n" \o RenderElements(elements) \o "</text>\n",
     readable |-> readable, opens |-> opens]

BothOpen == [resolved |-> TRUE, unresolved |-> TRUE]

RunFiles ==
    {XMLFile(<<Element("Soph. El. 123", "El. 123"), Element("", "zz. 1.1")>>, TRUE, BothOpen),
     XMLFile(<<Element("", "zz. 1.1"), Element("Soph. El. 123", "El. 123")>>, TRUE, BothOpen),
     XMLFile(<<Element("soph. zz", "hom. qq"), Element("Hom. Il. 1.1", "Il. 1.1")>>,
             TRUE, BothOpen),
     XMLFile(<<>>, TRUE, BothOpen),
     XMLFile(<<Element("Soph. El. 123", "El. 123")>>, FALSE, BothOpen),
     XMLFile(<<Element("", "zz. 1.1"), Element("Soph. El. 123", "El. 123")>>, TRUE,
             [resolved |-> TRUE, unresolved |-> FALSE])}

Runs == UNION {[1..n -> RunFiles] : n \in 1..MaxFiles}

\* the name filepath.Glob lists the i-th file under
FileName(i) == Itoa(i) \o ".xml"

\* ProcessXMLFile: the output files and cp.Counter afterwards, and the error
ProcessXMLFile(st, files, file, filename, counter, useCitTags) ==
    IF ~file.readable
    THEN [resolved |-> files.resolved, unresolved |-> files.unresolved,
          counter |-> counter, err |-> "error"]
    ELSE Bind(file.content, LAMBDA xmlContent :
         Bind(ExtractCitations(st, xmlContent, filename, counter, useCitTags),
              LAMBDA extracted :
         Bind(WriteCitations(files, extracted.citations, file.opens), LAMBDA written :
             [resolved |-> written.resolved, unresolved |-> written.unresolved,
              counter |-> extracted.counter, err |-> written.err])))

\* a loop that returns at the first file that cannot be processed
NextFileStopOnError(i, n, err) == IF err = "nil" THEN i + 1 ELSE n + 1

\* the loop of ProcessAllXMLFiles: an error is logged and the loop continues
\* with the next of the n files
NextFile(i, n, err) == i + 1

InitRun ==
    /\ store \in LoadedStores
    /\ op = "ProcessAllXMLFiles"
    /\ arg1 \in Runs
    /\ arg2 \in [UseCitTags : BOOLEAN]
    /\ pc = 1
    /\ out = <<>>
    /\ NewCitationProcessor

\* one iteration of the loop; out collects the error of each iteration
ProcessNextFile ==
    /\ op = "ProcessAllXMLFiles"
    /\ pc \in 1..Len(arg1)
    /\ \E after \in {ProcessXMLFile(store, [resolved |-> resolved, unresolved |-> unresolved],
                                      arg1[pc], FileName(pc), Counter, arg2.UseCitTags)} :
           /\ resolved' = after.resolved
           /\ unresolved' = after.unresolved
           /\ Counter' = after.counter
           /\ out' = Append(out, after.err)
           /\ pc' = NextFile(pc, Len(arg1), after.err)
    /\ UNCHANGED <<store, op, arg1, arg2, CounterMux>>

SpecRun == InitRun /\ [][ProcessNextFile]_vars

RunDone == op = "ProcessAllXMLFiles" /\ pc = Len(arg1) + 1

Processable(file) == file.readable /\ file.opens.resolved /\ file.opens.unresolved

\* select or resolve_identifier fails on the element
FailsToResolve(st, e) ==
    \/ GetRef(st, e.n, e.bibl) = ""
    \/ GetURN(st, GetRef(st, e.n, e.bibl), "") = ""

\* line is a record of element e of the file listed under filename
RecordOf(line, e, filename) ==
    /\ Contains(line, "{" \o JSONField("n_attrib", e.n) \o "," \o JSONField("bibl", e.bibl) \o ",")
    /\ Contains(line, JSONField("filename", filename))

HasURN(line, urn) == Contains(line, "," \o JSONField("urn", urn) \o ",")

MaxWorks == 3

\* titles of the source data with their identifiers: "oedipus" and "el" are
\* also abbreviations the generator produces for other titles, and the two
\* longer titles share their abbreviations up to "oedipus"
SourceWorks ==
    [t \in {"electra", "el", "oedipus", "oedipus tyrannus", "oedipus coloneus"} |->
        CASE t = "electra" -> Simple("tlg005")
          [] t = "el" -> Simple("tlg009")
          [] t = "oedipus" -> Simple("tlg010")
          [] t = "oedipus tyrannus" -> Simple("tlg004")
          [] t = "oedipus coloneus" -> Simple("tlg007")]

\* the source tables: up to MaxWorks of the titles, for one author
SourceTables ==
    {[GreekSource EXCEPT !.WorkURNs = [a \in {"sophocles"} |-> [t \in T |-> SourceWorks[t]]]] :
        T \in {T \in SUBSET DOMAIN SourceWorks : Cardinality(T) \in 1..MaxWorks}}

InitExpand ==
    /\ store \in LoadedStores
    /\ op = "expandWorkTitles"
    /\ arg1 \in SourceTables
    /\ arg2 \in VisitOrders(arg1) \X VisitOrders(arg1)
    /\ pc = "ready"
    /\ out = <<>>
    /\ NewCitationProcessor

\* one run of expandWorkTitles over the source tables; out collects the
\* expanded tables of the runs
Expand ==
    /\ op = "expandWorkTitles"
    /\ pc \in {"ready", "once"}
    /\ out' = Append(out, expandWorkTitles(arg1, arg2[Len(out) + 1]).WorkURNs)
    /\ pc' = IF pc = "ready" THEN "once" ELSE "done"
    /\ UNCHANGED <<store, op, arg1, arg2>>
    /\ UNCHANGED procVars

SpecExpand == InitExpand /\ [][Expand]_vars

\* C18: after expansion every literal title of the source data maps to its
\* own source identifier, for every author, in whatever order the titles
\* were visited, also when the title is a generated abbreviation of another
\* title of that author.
C18_LiteralKeepsIdentifier ==
    op = "expandWorkTitles" =>
        \A r \in 1..Len(out) :
            \A a \in DOMAIN arg1.WorkURNs :
                \A t \in DOMAIN arg1.WorkURNs[a] :
                    /\ t \in DOMAIN out[r][a]
                    /\ out[r][a][t] = arg1.WorkURNs[a][t]

\* "oedipus tyrannus" was visited before "oedipus", so "oedipus" was first
\* entered as an abbreviation of the longer title, and it ends with its own
\* identifier
C18_Witness ==
    /\ op = "expandWorkTitles"
    /\ pc = "once"
    /\ DOMAIN arg1.WorkURNs["sophocles"] = {"oedipus", "oedipus tyrannus"}
    /\ arg2[1]["sophocles"] = <<"oedipus tyrannus", "oedipus">>
    /\ InSeq(GenerateWorkAbbreviations("oedipus tyrannus"), "oedipus")
    /\ out[1]["sophocles"]["oedipus"] = Simple("tlg010")
    /\ out[1]["sophocles"]["oedipus tyrannus"] = Simple("tlg004")
    /\ out[1]["sophocles"]["o"] = Simple("tlg004")

\* C19: two runs of the expansion over the same source tables give the same
\* expanded table for every author, whatever order each run visits the
\* titles in.
C19_SameTableEveryRun ==
    (op = "expandWorkTitles" /\ pc = "done") => out[1] = out[2]

(***************************************************************************)
(* The default work code: the last tier of getWorkURN and the code of      *)
(* handleSingleWorkAuthor                                                  *)
(***************************************************************************)
\* the canonical author key GetURN resolves for the reference
ResolvedAuthorOf(st, r) ==
    With(parseReference(st, NormalizeFF(r)), LAMBDA parsed :
        resolveAuthor(st, parsed.author, parsed.work))

\* GetURN takes the single-work branch for the parsed work
SingleWorkBranch(st, author, work) ==
    /\ IsSingleWorkAuthor(st, author)
    /\ work = "" \/ looksLikeBookReference(work)

\* C21: when no table entry matches the work token, exactly or through a
\* generated abbreviation, and the token is not a number, and for every
\* single-work author, the work code of the returned identifier starts with
\* the letter prefix of the tradition of the author's stem: tlg for a Greek
\* stem, phi for a Latin stem.
C21_DefaultCodeOfOwnTradition ==
    URNDone =>
        LET author == ResolvedAuthorOf(store, arg1)
            work == parseReference(store, NormalizeFF(arg1)).work
            stem == GetAllAuthURNs(store)[author]
        IN  (/\ detectURN(NormalizeFF(arg1)) = ""
             /\ author \in DOMAIN GetAllAuthURNs(store)
             /\ Contains(stem, "greekLit") \/ Contains(stem, "latinLit")
             /\ \/ SingleWorkBranch(store, author, work)
                \/ /\ NoEntryMatches(store, author, work)
                   /\ ~isNumeric(ToLower(work)))
            => HasPrefix(out, stem \o "." \o TraditionPrefix(stem))

(***************************************************************************)
(* The location of a single-work author's identifier                       *)
(***************************************************************************)
RECURSIVE AfterColons(_, _)
\* the text behind the n-th colon of s ("" when s has fewer colons)
AfterColons(s, n) ==
    IF n = 0 THEN s
    ELSE IF ~Contains(s, ":") THEN ""
    ELSE AfterColons(Sub(s, Index(s, ":") + 1, Len(s)), n - 1)

\* the passage location of an identifier urn:cts:namespace:codes:location
LocationOf(urn) == AfterColons(urn, 4)

\* work, prefixed to passage as a location component (fullPassage of GetURN)
FullPassage(work, passage) ==
    IF passage # "" THEN work \o "." \o passage ELSE work

\* the reference of the call is one of a single-work author and its parsed
\* work is a book/section label
BookLabelCall ==
    /\ URNDone
    /\ detectURN(NormalizeFF(arg1)) = ""
    /\ ResolvedAuthorOf(store, arg1) \in DOMAIN GetAllAuthURNs(store)
    /\ IsSingleWorkAuthor(store, ResolvedAuthorOf(store, arg1))
    /\ parseReference(store, NormalizeFF(arg1)).work # ""
    /\ looksLikeBookReference(parseReference(store, NormalizeFF(arg1)).work)

\* C22: for a single-work author whose parsed work is a bare Roman numeral
\* I..XX or a bare number, optionally dotted, the location of the returned
\* identifier starts with that label followed by the parsed passage.
C22_BookLabelKeptInLocation ==
    BookLabelCall =>
        LET parsed == parseReference(store, NormalizeFF(arg1))
        IN  HasPrefix(LocationOf(out), FullPassage(parsed.work, parsed.passage))

(***************************************************************************)
(* The smart suspension of a title of several words                        *)
(***************************************************************************)
\* the words of a title that give a span: function words are skipped, and
\* "de" and "on" are skipped or kept as the variant says
ContentWords(title, skipDe) ==
    SelectSeq(Fields(title),
              LAMBDA word : IF word \in {"de", "on"} THEN ~skipDe
                            ELSE word \notin FuncWords)

\* the spans of a suspension: the pieces between its periods, without the
\* piece behind the trailing period
SpansOf(susp) == SplitOn(TrimSuffix(susp, "."), {"."}, "", <<>>)

\* susp has one span for every content word, each the start of its word,
\* joined by periods and followed by a period
OneSpanPerWord(susp, content) ==
    /\ HasSuffix(susp, ".")
    /\ Len(SpansOf(susp)) = Len(content)
    /\ \A i \in 1..Len(content) :
           /\ SpansOf(susp)[i] # ""
           /\ HasPrefix(content[i], SpansOf(susp)[i])

\* C23: for a title of several space-separated words, each of the two smart
\* suspensions has one span per content word (function words skipped, "de"
\* and "on" kept or skipped as the variant says), the spans joined by
\* periods and followed by a period, and it is among the abbreviations
\* generated; two content words give two spans.
C23_OneSpanPerContentWord ==
    (op = "GenerateWorkAbbreviations" /\ pc = "done") =>
        \A skipDe \in BOOLEAN :
            LET title == ToLower(arg1)
                content == ContentWords(title, skipDe)
                susp == generateSmartSuspension(title, skipDe)
            IN  (Len(Fields(title)) > 1 /\ ~NumericOnly(arg1) /\ Len(content) > 0) =>
                    /\ OneSpanPerWord(susp, content)
                    /\ InSeq(out, susp)

(***************************************************************************)
(* The full structured form of an embedded identifier                      *)
(***************************************************************************)
\* the namespace prefixes and the default edition suffixes of the traditions
Namespaces == {"urn:cts:greekLit:", "urn:cts:latinLit:", "urn:cts:englishLit:",
               "urn:cts:greekSchol:"}

EditionSuffixes == {"perseus-grc2", "perseus-lat2", "perseus-eng2"}

\* the full structured forms of a matched code: that of its tradition for a
\* tlg or phi code, that of any tradition for a stoa code
FullForms(code) ==
    IF HasPrefix(code, "stoa")
    THEN {ns \o code \o "." \o suffix : ns \in Namespaces, suffix \in EditionSuffixes}
    ELSE {Namespace(code) \o code \o "." \o EditionSuffix(code)}

\* C24: for every reference in which detection finds a code pair of one of
\* the three code patterns (tlg, phi, stoa), GetURN returns the full
\* structured form: the matched code with a namespace prefix in front and
\* the default edition suffix of the tradition behind it.
C24_EmbeddedFullForm ==
    URNDone =>
        LET code == detectURN(NormalizeFF(arg1))
        IN  code # "" => \E form \in FullForms(code) : HasPrefix(out, form)

(***************************************************************************)
(* The split of a token at its first period                                *)
(***************************************************************************)
\* the remainder of the call's reference behind the author, as tokens, after
\* the multi-word substitution
RemainderTokens ==
    Fields(processWorkTitles(store, out.author, Join(AfterAuthor(arg1, out.author), " ")))

\* the positions of the tokens that contain a period
DottedTokens(tokens) == {i \in 1..Len(tokens) : Contains(tokens[i], ".")}

FFBodies == {"", "5", "hom. il. 1", "1.2", "off", "x f", "f", "dem. or. 19 ff"}

FFGaps == {"", " ", "  "}

FFEndings == {"", "ff", "ff.", "f", "ff..", "FF", "ff ", ".ff", "f f", "ff,"}

FFInputs == {body \o gap \o ending : body \in FFBodies, gap \in FFGaps, ending \in FFEndings}

InitFF ==
    /\ store \in LoadedStores
    /\ op = "NormalizeFF"
    /\ arg1 \in FFInputs
    /\ arg2 = ""
    /\ pc = "ready"
    /\ out = <<>>
    /\ NewCitationProcessor

\* the step applied to the reference
ApplyFF ==
    /\ op = "NormalizeFF"
    /\ pc = "ready"
    /\ out' = <<NormalizeFF(arg1)>>
    /\ pc' = "once"
    /\ UNCHANGED <<store, op, arg1, arg2>>
    /\ UNCHANGED procVars

\* the step applied to its own result
ApplyFFAgain ==
    /\ op = "NormalizeFF"
    /\ pc = "once"
    /\ out' = Append(out, NormalizeFF(out[1]))
    /\ pc' = "done"
    /\ UNCHANGED <<store, op, arg1, arg2>>
    /\ UNCHANGED procVars

NextFF == ApplyFF \/ ApplyFFAgain

SpecFF == InitFF /\ [][NextFF]_vars

\* the reference without its "ff" or "ff." ending
BeforeFF(ref) ==
    IF HasSuffix(ref, "ff") THEN Sub(ref, 1, Len(ref) - 2)
    ELSE Sub(ref, 1, Len(ref) - 3)

EndsInFF(ref) == HasSuffix(ref, "ff") \/ HasSuffix(ref, "ff.")

\* C26 as stated: a reference ending in "ff" or "ff." is rewritten to end in
\* "ff" with no space immediately before it and with the text before that
\* space unchanged; a reference with neither ending is left unchanged;
\* applying the step to its own result changes nothing.
C26_ClosedUpAndIdempotent ==
    (op = "NormalizeFF" /\ pc # "ready") =>
        /\ EndsInFF(arg1) =>
               /\ HasSuffix(out[1], "ff")
               /\ ~HasSuffix(out[1], " ff")
               /\ out[1] = TrimSuffix(BeforeFF(arg1), " ") \o "ff"
        /\ ~EndsInFF(arg1) => out[1] = arg1
        /\ pc = "done" => out[2] = out[1]

\* C26 as amended: a reference ending in "ff" or "ff." is rewritten to end in
\* "ff", one space immediately before the ending, if there is one, being
\* removed and the text before it unchanged; a reference with neither ending
\* is left unchanged; applying the step to its own result changes nothing
\* unless the text before the ending ended in two spaces.
C26_ClosesOneSpace ==
    (op = "NormalizeFF" /\ pc # "ready") =>
        /\ EndsInFF(arg1) =>
               /\ HasSuffix(out[1], "ff")
               /\ out[1] = TrimSuffix(BeforeFF(arg1), " ") \o "ff"
        /\ ~EndsInFF(arg1) => out[1] = arg1
        /\ (pc = "done" /\ ~(EndsInFF(arg1) /\ HasSuffix(BeforeFF(arg1), "  ")))
               => out[2] = out[1]

C26_Witness ==
    /\ op = "NormalizeFF"
    /\ pc = "done"
    /\ arg1 = "hom. il. 1 ff."
    /\ out = <<"hom. il. 1ff", "hom. il. 1ff">>

(***************************************************************************)
(* A numbered work of a Range entry, end to end                            *)
(***************************************************************************)
\* the tokens of the reference behind its author
TokensAfterAuthor(st, r) ==
    With(Fields(TrimSpace(NormalizeFF(r))), LAMBDA split :
        IF Len(split) = 0 THEN <<>>
        ELSE SubSeq(split, Len(Fields(LeadingAuthor(st, split))) + 1, Len(split)))

\* the Range entries the first token behind the author is a key of, in the
\* table of the resolved author, when the token behind it starts with a
\* number within the bounds of the entry
NumberedRangeEntries(st, r) ==
    With(TokensAfterAuthor(st, r), LAMBDA tokens :
        IF Len(tokens) < 2 \/ ~IsDigit(Ch(tokens[2], 1)) THEN {}
        ELSE {entry \in ExactEntry(st, ResolvedAuthorOf(st, r), tokens[1]) :
                 /\ IsRange(entry)
                 /\ Atoi(FirstNumber(tokens[2])) >= entry.start
                 /\ Atoi(FirstNumber(tokens[2])) <= entry.end})

\* C27: for a reference "A W n..." in which W is a key of the resolved
\* author's table with a Range(prefix, start, end) identifier and n is a
\* number with start <= n <= end, GetURN returns an identifier whose work
\* code is prefix followed by n zero-padded to 3 digits.
C27_NumberReachesRange ==
    URNDone =>
        \A entry \in NumberedRangeEntries(store, arg1) :
            HasPrefix(out, GetAllAuthURNs(store)[ResolvedAuthorOf(store, arg1)] \o "."
                             \o entry.prefix
                             \o Pad3(Atoi(FirstNumber(TokensAfterAuthor(store, arg1)[2])))
                             \o ".")

(***************************************************************************)
(* The Reference Selector, then the Reference Parser and the Author        *)
(* Disambiguator on the candidate it returned                              *)
(***************************************************************************)
\* the stores of a run whose data holds an author abbreviation of three
\* tokens, no shorter leading span of which is an abbreviation or an author
TrigramStores ==
    {[st EXCEPT !.Latin.AuthAbb = ("scr. hist. aug." :> "scriptores") @@ @,
                !.Latin.AuthURNs = ("scriptores" :> "urn:cts:latinLit:phi2331") @@ @] :
        st \in LoadedStores}

AgreeInputs ==
    {"zz 5", "scr. hist. aug. 5", "Scr. Hist. Aug. vita 1.2", "plin. zz 5", "pliny",
     "ap. rhod. 1.5", "hom. il. 1.1", "Soph. El.", "hom.", "sen. qq"}

InitAgree ==
    /\ store \in TrigramStores
    /\ op = "GetRef, parseReference"
    /\ arg1 \in AgreeInputs
    /\ arg2 \in AgreeInputs
    /\ pc = "ready"
    /\ out = <<>>
    /\ NewCitationProcessor

\* GetRef on the attribute value and the inline text
SelectCandidate ==
    /\ op = "GetRef, parseReference"
    /\ pc = "ready"
    /\ out' = [ref |-> GetRef(store, arg1, arg2)]
    /\ pc' = "selected"
    /\ UNCHANGED <<store, op, arg1, arg2>>
    /\ UNCHANGED procVars

\* parseReference on the candidate, resolveAuthor on its author and work
ParseCandidate ==
    /\ op = "GetRef, parseReference"
    /\ pc = "selected"
    /\ \E parsed \in {parseReference(store, out.ref)} :
           out' = [ref |-> out.ref,
                   parsed |-> parsed,
                   author |-> resolveAuthor(store, parsed.author, parsed.work)]
    /\ pc' = "done"
    /\ UNCHANGED <<store, op, arg1, arg2>>
    /\ UNCHANGED procVars

NextAgree == SelectCandidate \/ ParseCandidate

SpecAgree == InitAgree /\ [][NextAgree]_vars

\* the selector returned a candidate from its pattern scan or its author
\* checks
SelectedByAuthor ==
    /\ op = "GetRef, parseReference"
    /\ pc = "done"
    /\ ScanReached(NormalizeRef(arg1), NormalizeRef(arg2))
    /\ out.ref # ""

\* C28: whenever the selector returns a candidate because its leading 1-3
\* tokens are a recognized author, parsing that candidate and disambiguating
\* its author gives a non-empty canonical author key, also when only the
\* three-token span, or only an abbreviation stored with a disambiguation
\* marker, made the candidate author-recognized.
C28_SelectorAndParserAgree ==
    SelectedByAuthor => out.author # ""

(***************************************************************************)
(* The form of the passage parseReference returns                          *)
(***************************************************************************)
\* no whitespace in the passage
NoSpaceIn(passage) == \A i \in 1..Len(passage) : ~IsSpace(Ch(passage, i))

\* no whitespace, no two consecutive periods, no period at either end
CleanLocation(passage) ==
    /\ NoSpaceIn(passage)
    /\ ~Contains(passage, "..")
    /\ ~HasPrefix(passage, ".")
    /\ ~HasSuffix(passage, ".")

\* the remainder is a single token that contains a period: parseReference
\* splits it at its first period
SplitPath == Len(RemainderTokens) = 1 /\ Contains(RemainderTokens[1], ".")

\* C29 as stated: on every path of parseReference, the split of a single
\* token at a period as well as the scan for a digit or Roman numeral, the
\* returned passage contains no whitespace, no two consecutive periods, and
\* neither starts nor ends with a period.
C29_PassageCleanOnEveryPath ==
    ParseDone => CleanLocation(out.passage)

\* C29 as amended: the returned passage contains no whitespace on every
\* path; when it comes from the scan it has no two consecutive periods and
\* neither starts nor ends with a period; when it comes from the split of a
\* single token it is the text of the token behind its first period, as it
\* stands.
C29_PassageCleanOnScanPath ==
    ParseDone =>
        /\ NoSpaceIn(out.passage)
        /\ ~SplitPath => CleanLocation(out.passage)
        /\ SplitPath =>
               out.passage = Sub(RemainderTokens[1], Index(RemainderTokens[1], ".") + 1,
                                 Len(RemainderTokens[1]))

\* a passage of two tokens with periods at both ends of the second
C29_Witness ==
    /\ ParseDone
    /\ arg1 = "hom. 12 .3."
    /\ ~SplitPath
    /\ out.passage = "12.3"

(***************************************************************************)
(* The multi-word substitution of processWorkTitles, and the work-code     *)
(* lookup of the token it makes                                            *)
(***************************************************************************)
\* Latin source data with an author of whom one title is the first two words
\* of another
CaesarSource ==
    [LatinSource EXCEPT
        !.AuthAbb = ("caes." :> "caesar") @@ @,
        !.WorkURNs = ("caesar" :>
                         [t \in {"de bello", "de bello gallico"} |->
                            IF t = "de bello" THEN Simple("phi002") ELSE Simple("phi001")])
                     @@ @,
        !.AuthURNs = ("caesar" :> "urn:cts:latinLit:phi0448") @@ @]

\* the stores a run can start with on that data
CaesarStores ==
    {[st EXCEPT !.Latin = expandWorkTitles(CaesarSource, l)] :
        st \in LoadedStores, l \in VisitOrders(CaesarSource)}

SubstAuthors == {"soph.", "Soph.", "sen.", "seneca", "plin.", "caes.", "zz."}

SubstTitles ==
    {"oedipus tyrannus", "Oedipus Coloneus", "de clementia", "naturalis historia",
     "de bello", "de bello gallico", "el."}

SubstPassages == {"", "1.2", "foo 5"}

SubstInputs ==
    {Phrase(<<a, t, p>>) : a \in SubstAuthors, t \in SubstTitles, p \in SubstPassages}

InitSubst ==
    /\ store \in CaesarStores
    /\ op = "processWorkTitles"
    /\ arg1 \in SubstInputs
    /\ arg2 = ""
    /\ pc = "ready"
    /\ out = <<>>
    /\ NewCitationProcessor

\* the token processWorkTitles made of a span, "" when it made none (the
\* tokens of a reference hold no underscore of their own)
JoinedToken(remaining) ==
    IF Contains(remaining, "_") THEN Fields(remaining)[1] ELSE ""

\* parseReference on the reference, resolveAuthor on its author and work,
\* and getWorkURN, for the identity resolved, on the underscore-joined token
\* and on the key it was made of
CallSubst ==
    /\ op = "processWorkTitles"
    /\ pc = "ready"
    /\ \E parsed \in {parseReference(store, arg1)} :
       \E token \in {JoinedToken(processWorkTitles(store, parsed.author,
                                     Join(AfterAuthor(arg1, parsed.author), " ")))} :
       \E identity \in {resolveAuthor(store, parsed.author, parsed.work)} :
       \E key \in {ReplaceAll(ToLower(token), "_", " ")} :
       \E first \in WorkFirsts(store, identity, token) :
           out' = [parsed |-> parsed,
                   token |-> token,
                   key |-> key,
                   identity |-> identity,
                   tokenCode |-> getWorkURN(store, identity, token, first),
                   keyCode |-> IF token = "" THEN ""
                               ELSE GetAllWorkURNs(store)[identity][key].code]
    /\ pc' = "done"
    /\ UNCHANGED <<store, op, arg1, arg2>>
    /\ UNCHANGED procVars

SpecSubst == InitSubst /\ [][CallSubst]_vars

\* C30: whenever parseReference underscore-joins the shortest leading span
\* of two or more tokens that is a key of the author's table, the work-code
\* lookup resolves the underscore-joined token to the identifier of the
\* space-separated key it was made of, for the identity the disambiguator
\* selects in the end, also for an author stored with a disambiguation
\* marker.
C30_SubstitutionKeepsWork ==
    (op = "processWorkTitles" /\ pc = "done" /\ out.token # "") =>
        out.tokenCode = out.keyCode

====
